---- MODULE Spec2Model ----
(***************************************************************************)
(* Page Object / Component Object layer of the Playwright examples          *)
(* (HeaderComponent, FooterComponent, BasePage, ProductPage, DashboardPage, *)
(* LoginPage) and the mocked routes of interceptor-examples.spec.js.        *)
(*                                                                          *)
(* The browser page is a map from selectors to the state of the elements   *)
(* they match (how many, and whether the single match is visible).  Every   *)
(* method of the classes is an operator over a "run": the page it works on, *)
(* the error it has thrown so far, its return value, the user-facing       *)
(* actions it has issued and the number of queries it has sent to the page. *)
(* A step of a run is skipped once an error is pending, which is how a      *)
(* rejected await leaves an async method.                                   *)
(***************************************************************************)
EXTENDS Integers, Sequences, FiniteSets, TLC

VARIABLES dom, obj, last, request, response, net, workers, files, auth, api, axe, checkout, mock, ev, gql

vars == <<dom, obj, last, request, response, net, workers, files, auth, api, axe, checkout, mock, ev, gql>>

(***************************************************************************)
(* Bounds                                                                   *)
(***************************************************************************)
MaxCount == 2

\* statements of a free interception scenario
MaxSteps == 3

(***************************************************************************)
(* The page                                                                 *)
(***************************************************************************)
\* the selectors one operation reads together
UserSelectors == {"userMenu", "logoutBtn"}
CartSelectors == {"addToCartBtn", "quantityInput", "sizeSelector", "colorSelector", "colorOption"}
FormSelectors == {"emailInput", "passwordInput", "submitButton", "rememberMeCheckbox"}

HeaderRegions == {{"logo"}, {"searchInput"}, UserSelectors, {"navigationLinks"}}
FooterRegions == {{"footer"}, {"footerLinks"}, {"copyrightText"}, {"socialLinks"}}
ProductRegions == {CartSelectors, {"productTitle"}, {"productPrice"},
                   {"productDescription"}, {"reviewsSection"}}
                     \cup HeaderRegions \cup FooterRegions
DashboardRegions == {{"welcomeMessage"}, {"statsCards"}} \cup HeaderRegions \cup FooterRegions
LoginRegions == {FormSelectors, {"errorMessage"}, {"forgotPasswordLink"}}

Regions == HeaderRegions \cup FooterRegions \cup ProductRegions \cup DashboardRegions
              \cup LoginRegions

Selectors == UNION Regions

Absent == [n |-> 0, vis |-> FALSE]

\* what a selector can match: nothing, one visible or hidden element, several
ElemStates == {Absent} \cup {[n |-> 1, vis |-> b] : b \in BOOLEAN}
                 \cup {[n |-> k, vis |-> FALSE] : k \in 2..MaxCount}

Blank == [s \in Selectors |-> Absent]

\* the text carried by the elements of the filtered lists
Label(s) == CASE s = "navigationLinks" -> "Home"
              [] s = "footerLinks" -> "Privacy"
              [] s = "socialLinks" -> "Twitter"
              [] s = "colorOption" -> "red"
              [] OTHER -> "text"

Lower(t) == CASE t = "Home" -> "home"
              [] t = "Privacy" -> "privacy"
              [] t = "Twitter" -> "twitter"
              [] OTHER -> t

\* hasText matches case-insensitively; "" is a locator without a filter
Matches(hasText, label) == hasText = "" \/ Lower(hasText) = Lower(label)

\* a locator is a deferred query: a selector, an optional text filter, an optional parent
Loc(s) == [sel |-> s, hasText |-> "", within |-> ""]

Filter(loc, text) == [loc EXCEPT !.hasText = text]

Child(loc, s, attr) == [sel |-> s, hasText |-> attr, within |-> loc.sel]

Resolve(d, loc) ==
  IF loc.within # "" /\ d[loc.within].n = 0 THEN Absent
  ELSE IF Matches(loc.hasText, Label(loc.sel)) THEN d[loc.sel]
  ELSE Absent

NoErr == "none"
Undefined == "undefined"
NullValue == "null"

\* counted: the selectors whose presence the method has checked with count()
\* tried: the actions the method has issued, whether they landed (events) or rejected
Run(d) == [dom |-> d, err |-> NoErr, ret |-> Undefined, events |-> <<>>, queries |-> 0,
           counted |-> {}, tried |-> <<>>]

\* actionability of a locator: attached, unique (strict mode) and visible
ActError(d, loc) ==
  LET e == Resolve(d, loc)
  IN  IF e.n = 0 THEN "TimeoutError"
      ELSE IF e.n > 1 THEN "StrictModeViolation"
      ELSE IF ~e.vis THEN "TimeoutError"
      ELSE NoErr

Act(r, kind, loc, value) ==
  IF r.err # NoErr THEN r
  ELSE LET e == ActError(r.dom, loc)
       IN  IF e # NoErr
           THEN [r EXCEPT !.err = e, !.queries = @ + 1,
                          !.tried = Append(@, <<kind, loc.sel>>)]
           ELSE [r EXCEPT !.events = Append(@, <<kind, loc.sel, value>>),
                          !.queries = @ + 1,
                          !.tried = Append(@, <<kind, loc.sel>>)]

locator_click(r, loc) == Act(r, "click", loc, "")

locator_fill(r, loc, value) == Act(r, "fill", loc, value)

locator_selectOption(r, loc, value) == Act(r, "selectOption", loc, value)

keyboard_press(r, key) ==
  IF r.err # NoErr THEN r
  ELSE [r EXCEPT !.events = Append(@, <<"press", "keyboard", key>>),
                 !.tried = Append(@, <<"press", "keyboard">>)]

\* locator.count() never waits and never fails on an open page
locator_count(r, loc) == Resolve(r.dom, loc).n

Counted(r, loc) ==
  IF r.err # NoErr THEN r
  ELSE [r EXCEPT !.queries = @ + 1, !.counted = @ \cup {loc.sel}]

\* any other request to the page
Queried(r) == IF r.err # NoErr THEN r ELSE [r EXCEPT !.queries = @ + 1]

\* locator.isVisible(): false when nothing matches, strict mode error when several do
locator_isVisible(r, loc) ==
  IF r.err # NoErr THEN r
  ELSE LET e == Resolve(r.dom, loc)
       IN  IF e.n > 1
           THEN [r EXCEPT !.err = "StrictModeViolation", !.queries = @ + 1]
           ELSE [r EXCEPT !.ret = (e.n = 1 /\ e.vis), !.queries = @ + 1]

\* mutant: the rejection is not caught
CatchFalse_uncaught(r) == r

\* promise.catch(() => false)
CatchFalse(r) == IF r.err # NoErr THEN [r EXCEPT !.err = NoErr, !.ret = FALSE] ELSE r

TextOf(loc) == Label(loc.sel)

\* locator.textContent(): waits for one attached element, visible or not
locator_textContent(r, loc) ==
  IF r.err # NoErr THEN r
  ELSE LET e == Resolve(r.dom, loc)
       IN  IF e.n = 0 THEN [r EXCEPT !.err = "TimeoutError", !.queries = @ + 1]
           ELSE IF e.n > 1 THEN [r EXCEPT !.err = "StrictModeViolation", !.queries = @ + 1]
           ELSE [r EXCEPT !.ret = TextOf(loc), !.queries = @ + 1]

Return(r, v) == IF r.err # NoErr THEN r ELSE [r EXCEPT !.ret = v]

(***************************************************************************)
(* HeaderComponent                                                          *)
(***************************************************************************)
\* mutant: the constructor asks the page whether the logo is there
HeaderComponent_eager(page) ==
  [this |-> [class |-> "HeaderComponent", page |-> page,
             logo |-> Loc("logo"), searchInput |-> Loc("searchInput"),
             userMenu |-> Loc("userMenu"), logoutBtn |-> Loc("logoutBtn"),
             navigationLinks |-> Loc("navigationLinks")],
   events |-> <<>>, queries |-> 1]

HeaderComponent(page) ==
  [this |-> [class |-> "HeaderComponent", page |-> page,
             logo |-> Loc("logo"), searchInput |-> Loc("searchInput"),
             userMenu |-> Loc("userMenu"), logoutBtn |-> Loc("logoutBtn"),
             navigationLinks |-> Loc("navigationLinks")],
   events |-> <<>>, queries |-> 0]

HeaderComponent_clickLogo(this, r) == locator_click(r, this.logo)

\* mutant: Enter is pressed outside the presence check
HeaderComponent_search_enterAlways(this, r, query) ==
  LET c == Counted(r, this.searchInput)
  IN  keyboard_press(IF locator_count(r, this.searchInput) > 0
                     THEN locator_fill(c, this.searchInput, query)
                     ELSE c,
                     "Enter")

HeaderComponent_search(this, r, query) ==
  LET c == Counted(r, this.searchInput)
  IN  IF locator_count(r, this.searchInput) > 0
      THEN keyboard_press(locator_fill(c, this.searchInput, query), "Enter")
      ELSE c

HeaderComponent_openUserMenu(this, r) ==
  LET c == Counted(r, this.userMenu)
  IN  IF locator_count(r, this.userMenu) > 0
      THEN locator_click(c, this.userMenu)
      ELSE c

\* the click on the user menu may open it: reveal is what logoutBtn matches afterwards
MenuOpened(r, reveal) ==
  IF r.events # <<>> THEN [r EXCEPT !.dom = [@ EXCEPT !["logoutBtn"] = reveal]] ELSE r

\* mutant: the logout button is looked for before the user menu is opened
HeaderComponent_logout_checkFirst(this, r, reveal) ==
  LET found == locator_count(r, this.logoutBtn) > 0
      m == MenuOpened(HeaderComponent_openUserMenu(this, Counted(r, this.logoutBtn)), reveal)
  IN  IF m.err = NoErr /\ found
      THEN locator_click(m, this.logoutBtn)
      ELSE m

HeaderComponent_logout(this, r, reveal) ==
  LET m == MenuOpened(HeaderComponent_openUserMenu(this, r), reveal)
      c == Counted(m, this.logoutBtn)
  IN  IF m.err = NoErr /\ locator_count(m, this.logoutBtn) > 0
      THEN locator_click(c, this.logoutBtn)
      ELSE c

\* mutant: the link is clicked without a presence check
HeaderComponent_navigateTo_unchecked(this, r, linkText) ==
  locator_click(r, Filter(this.navigationLinks, linkText))

HeaderComponent_navigateTo(this, r, linkText) ==
  LET link == Filter(this.navigationLinks, linkText)
      c == Counted(r, link)
  IN  IF locator_count(r, link) > 0
      THEN locator_click(c, link)
      ELSE c

HeaderComponent_isVisible(this, r) == CatchFalse(locator_isVisible(r, this.logo))

(***************************************************************************)
(* FooterComponent                                                          *)
(***************************************************************************)
FooterComponent(page) ==
  [this |-> [class |-> "FooterComponent", page |-> page,
             footer |-> Loc("footer"), footerLinks |-> Loc("footerLinks"),
             copyrightText |-> Loc("copyrightText"), socialLinks |-> Loc("socialLinks")],
   events |-> <<>>, queries |-> 0]

FooterComponent_clickLink(this, r, linkText) ==
  LET link == Filter(this.footerLinks, linkText)
      c == Counted(r, link)
  IN  IF locator_count(r, link) > 0
      THEN locator_click(c, link)
      ELSE c

FooterComponent_getCopyrightText(this, r) ==
  LET c == Counted(r, this.copyrightText)
  IN  IF locator_count(r, this.copyrightText) > 0
      THEN locator_textContent(c, this.copyrightText)
      ELSE Return(c, NullValue)

FooterComponent_clickSocialLink(this, r, platform) ==
  LET socialLink == Filter(this.socialLinks, platform)
      c == Counted(r, socialLink)
  IN  IF locator_count(r, socialLink) > 0
      THEN locator_click(c, socialLink)
      ELSE c

FooterComponent_isVisible(this, r) == CatchFalse(locator_isVisible(r, this.footer))

RECURSIVE GetAllLinksLoop(_, _, _, _, _)
GetAllLinksLoop(this, r, i, count, links) ==
  IF r.err # NoErr THEN r
  ELSE IF i >= count THEN Return(r, links)
  ELSE LET t == IF Resolve(r.dom, this.footerLinks).n > i
                 THEN [r EXCEPT !.ret = TextOf(this.footerLinks), !.queries = @ + 1]
                 ELSE [r EXCEPT !.err = "TimeoutError", !.queries = @ + 1]
       IN  IF t.err # NoErr THEN t
           ELSE GetAllLinksLoop(this, t, i + 1, count, Append(links, t.ret))

FooterComponent_getAllLinks(this, r) ==
  GetAllLinksLoop(this, Counted(r, this.footerLinks), 0, locator_count(r, this.footerLinks), <<>>)

(***************************************************************************)
(* BasePage                                                                 *)
(***************************************************************************)
\* mutant: the footer is not constructed
BasePage_noFooter(page) ==
  LET h == HeaderComponent(page)
  IN  [this |-> [class |-> "BasePage", page |-> page, header |-> h.this],
       events |-> h.events, queries |-> h.queries]

BasePage(page) ==
  LET h == HeaderComponent(page)
      f == FooterComponent(page)
  IN  [this |-> [class |-> "BasePage", page |-> page, header |-> h.this, footer |-> f.this],
       events |-> h.events \o f.events, queries |-> h.queries + f.queries]

BasePage_getUrl(this, r) == Return(r, "url")

BasePage_getTitle(this, r) == Return(Queried(r), "title")

BasePage_waitForLoadState(this, r) == Queried(r)

BasePage_takeScreenshot(this, r) == Queried(r)

(***************************************************************************)
(* ProductPage extends BasePage                                             *)
(***************************************************************************)
ProductPage_extends == "BasePage"

ProductPage(page) ==
  LET super == BasePage(page)
  IN  [this |-> [class |-> "ProductPage",
                 addToCartBtn |-> Loc("addToCartBtn"), productTitle |-> Loc("productTitle"),
                 productPrice |-> Loc("productPrice"),
                 productDescription |-> Loc("productDescription"),
                 quantityInput |-> Loc("quantityInput"), sizeSelector |-> Loc("sizeSelector"),
                 colorSelector |-> Loc("colorSelector"),
                 reviewsSection |-> Loc("reviewsSection")] @@ super.this,
       events |-> super.events, queries |-> super.queries]

ProductPage_addToCart(this, r) ==
  LET c == Counted(r, this.addToCartBtn)
  IN  IF locator_count(r, this.addToCartBtn) > 0
      THEN locator_click(c, this.addToCartBtn)
      ELSE c

\* options is a record holding the fields that were passed; 0 and "" are falsy
addToCartWithOptions_quantity(this, r, options) ==
  IF r.err = NoErr /\ "quantity" \in DOMAIN options /\ options.quantity # 0
  THEN LET c == Counted(r, this.quantityInput)
       IN  IF locator_count(r, this.quantityInput) > 0
           THEN locator_fill(c, this.quantityInput, ToString(options.quantity))
           ELSE c
  ELSE r

\* mutant: the size is selected whenever the control is there, passed or not
addToCartWithOptions_size_unasked(this, r, options) ==
  IF r.err = NoErr
  THEN LET c == Counted(r, this.sizeSelector)
       IN  IF locator_count(r, this.sizeSelector) > 0
           THEN locator_selectOption(c, this.sizeSelector,
                                     IF "size" \in DOMAIN options THEN options.size
                                     ELSE Undefined)
           ELSE c
  ELSE r

addToCartWithOptions_size(this, r, options) ==
  IF r.err = NoErr /\ "size" \in DOMAIN options /\ options.size # ""
  THEN LET c == Counted(r, this.sizeSelector)
       IN  IF locator_count(r, this.sizeSelector) > 0
           THEN locator_selectOption(c, this.sizeSelector, options.size)
           ELSE c
  ELSE r

addToCartWithOptions_color(this, r, options) ==
  IF r.err = NoErr /\ "color" \in DOMAIN options /\ options.color # ""
  THEN IF locator_count(r, this.colorSelector) > 0
       THEN LET colorOption == Child(this.colorSelector, "colorOption", options.color)
                c == Counted(Counted(r, this.colorSelector), colorOption)
            IN  IF locator_count(r, colorOption) > 0
                THEN locator_click(c, colorOption)
                ELSE c
       ELSE Counted(r, this.colorSelector)
  ELSE r

\* mutant: the product is added before the options are applied
ProductPage_addToCartWithOptions_addFirst(this, r, options) ==
  addToCartWithOptions_color(this,
    addToCartWithOptions_size(this,
      addToCartWithOptions_quantity(this,
        ProductPage_addToCart(this, r), options), options), options)

ProductPage_addToCartWithOptions(this, r, options) ==
  ProductPage_addToCart(this,
    addToCartWithOptions_color(this,
      addToCartWithOptions_size(this,
        addToCartWithOptions_quantity(this, r, options), options), options))

TextGetter(r, loc) ==
  LET c == Counted(r, loc)
  IN  IF locator_count(r, loc) > 0
      THEN locator_textContent(c, loc)
      ELSE Return(c, NullValue)

ProductPage_getProductTitle(this, r) == TextGetter(r, this.productTitle)

ProductPage_getProductPrice(this, r) == TextGetter(r, this.productPrice)

ProductPage_getProductDescription(this, r) == TextGetter(r, this.productDescription)

\* mutant: the query is not passed on
ProductPage_searchProduct_noQuery(this, r, query) == HeaderComponent_search(this.header, r, "")

ProductPage_searchProduct(this, r, query) == HeaderComponent_search(this.header, r, query)

\* scrollIntoViewIfNeeded waits for one attached element; it is not a user input
ProductPage_scrollToReviews(this, r) ==
  LET c == Counted(r, this.reviewsSection)
      e == Resolve(r.dom, this.reviewsSection)
  IN  IF e.n > 0
      THEN IF e.n > 1 THEN [c EXCEPT !.err = "StrictModeViolation", !.queries = @ + 1]
           ELSE [c EXCEPT !.queries = @ + 1]
      ELSE c

ProductPage_isLoaded(this, r) == CatchFalse(locator_isVisible(r, this.productTitle))

(***************************************************************************)
(* DashboardPage extends BasePage                                           *)
(***************************************************************************)
DashboardPage_extends == "BasePage"

DashboardPage(page) ==
  LET super == BasePage(page)
  IN  [this |-> [class |-> "DashboardPage",
                 welcomeMessage |-> Loc("welcomeMessage"),
                 statsCards |-> Loc("statsCards")] @@ super.this,
       events |-> super.events, queries |-> super.queries]

DashboardPage_navigateToTransactions(this, r) ==
  HeaderComponent_search(this.header, r, "transactions")

DashboardPage_getWelcomeMessage(this, r) == TextGetter(r, this.welcomeMessage)

DashboardPage_logout(this, r, reveal) == HeaderComponent_logout(this.header, r, reveal)

DashboardPage_goHome(this, r) == HeaderComponent_clickLogo(this.header, r)

DashboardPage_getStatsCount(this, r) == Return(Counted(r, this.statsCards), locator_count(r, this.statsCards))

DashboardPage_isLoaded(this, r) == CatchFalse(locator_isVisible(r, this.welcomeMessage))

(***************************************************************************)
(* LoginPage                                                                *)
(***************************************************************************)
LoginPage_extends == "Object"

LoginPage(page) ==
  [this |-> [class |-> "LoginPage", page |-> page,
             emailInput |-> Loc("emailInput"), passwordInput |-> Loc("passwordInput"),
             submitButton |-> Loc("submitButton"), errorMessage |-> Loc("errorMessage"),
             forgotPasswordLink |-> Loc("forgotPasswordLink"),
             rememberMeCheckbox |-> Loc("rememberMeCheckbox")],
   events |-> <<>>, queries |-> 0]

LoginPage_login(this, r, email, password) ==
  locator_click(locator_fill(locator_fill(r, this.emailInput, email),
                             this.passwordInput, password),
                this.submitButton)

LoginPage_loginWithRememberMe(this, r, email, password) ==
  LET f == locator_fill(locator_fill(r, this.emailInput, email),
                        this.passwordInput, password)
      c == IF f.err = NoErr
           THEN IF locator_count(f, this.rememberMeCheckbox) > 0
                THEN Act(Counted(f, this.rememberMeCheckbox), "check",
                         this.rememberMeCheckbox, "")
                ELSE Counted(f, this.rememberMeCheckbox)
           ELSE f
  IN  locator_click(c, this.submitButton)

LoginPage_clickForgotPassword(this, r) ==
  LET c == Counted(r, this.forgotPasswordLink)
  IN  IF locator_count(r, this.forgotPasswordLink) > 0
      THEN locator_click(c, this.forgotPasswordLink)
      ELSE c

LoginPage_getErrorMessage(this, r) == TextGetter(r, this.errorMessage)

LoginPage_hasErrorMessage(this, r) == CatchFalse(locator_isVisible(r, this.errorMessage))

LoginPage_fillEmail(this, r, email) == locator_fill(r, this.emailInput, email)

LoginPage_fillPassword(this, r, password) == locator_fill(r, this.passwordInput, password)

LoginPage_isFormVisible(this, r) == CatchFalse(locator_isVisible(r, this.emailInput))

(***************************************************************************)
(* Scenario state: the page, the object under test and its last call        *)
(***************************************************************************)
NoObject == [class |-> "none"]

NoRequest == [url |-> "", method |-> "none", hasBody |-> FALSE, payload |-> <<>>,
              postData |-> [json |-> <<>>]]

NoResponse == [status |-> 0, err |-> NoErr, data |-> <<>>]

\* the record of the last call: what was called on which page, and how it ended
Idle == [op |-> "idle", args |-> <<>>, pre |-> Blank, err |-> NoErr, ret |-> Undefined,
         events |-> <<>>, queries |-> 0, counted |-> {}, tried |-> <<>>]

Queries == {"test", "transactions"}
LinkTexts == {"Home", "Privacy", "About"}
Platforms == {"twitter", "facebook"}
Emails == {"tomsmith"}
Passwords == {"SuperSecretPassword!"}

OptionFields(name, values) == {<<>>} \cup {[x \in {name} |-> v] : v \in values}

OptionSets == {q @@ z @@ c : q \in OptionFields("quantity", {0, 2}),
                             z \in OptionFields("size", {"M"}),
                             c \in OptionFields("color", {"red"})}

\* the regions whose elements the methods of a class read
Reads(class) == CASE class = "HeaderComponent" -> HeaderRegions
                  [] class = "FooterComponent" -> FooterRegions
                  [] class = "ProductPage" -> ProductRegions
                  [] class = "DashboardPage" -> DashboardRegions
                  [] class = "LoginPage" -> LoginRegions
                  [] OTHER -> {}

\* a page shows the elements of one region, and a nested element only inside its parent;
\* elements that no method of the object under test reads are left out of the page
OneRegion(d, class) ==
  /\ \E R \in Reads(class) \cup {{}} : \A s \in Selectors \ R : d[s] = Absent
  /\ d["colorSelector"].n = 0 => d["colorOption"].n = 0

\* an action on the page may navigate away from it
PageAfter(r) == IF r.events = <<>> THEN {r.dom} ELSE {r.dom, Blank}

Called(op, args, r) ==
  /\ last.op = "idle"
  /\ last' = [op |-> op, args |-> args, pre |-> dom, err |-> r.err, ret |-> r.ret,
              events |-> r.events, queries |-> r.queries, counted |-> r.counted,
              tried |-> r.tried]
  /\ dom' \in PageAfter(r)
  /\ UNCHANGED <<obj, request, response, net, workers, files, auth, api, axe, checkout, mock, ev, gql>>

\* a component is called on its own or through the page object that holds it
Headers == IF obj.class = "HeaderComponent" THEN {obj}
           ELSE IF "header" \in DOMAIN obj THEN {obj.header} ELSE {}

Footers == IF obj.class = "FooterComponent" THEN {obj}
           ELSE IF "footer" \in DOMAIN obj THEN {obj.footer} ELSE {}

Extends(class) == CASE class = "ProductPage" -> ProductPage_extends
                    [] class = "DashboardPage" -> DashboardPage_extends
                    [] class = "LoginPage" -> LoginPage_extends
                    [] OTHER -> "Object"

\* the application renders, changes or removes the elements one selector matches
DomChange ==
  \E s \in Selectors, e \in ElemStates :
    /\ last.op = "idle"
    /\ dom[s] # e
    /\ OneRegion([dom EXCEPT ![s] = e], obj.class)
    /\ dom' = [dom EXCEPT ![s] = e]
    /\ UNCHANGED <<obj, last, request, response, net, workers, files, auth, api, axe, checkout, mock, ev, gql>>

page_goto ==
  /\ last.op = "idle"
  /\ dom # Blank
  /\ dom' = Blank
  /\ UNCHANGED <<obj, last, request, response, net, workers, files, auth, api, axe, checkout, mock, ev, gql>>

\* the scenario takes the outcome of the call and goes on to its next statement
Continue ==
  /\ last.op # "idle"
  /\ last' = Idle
  /\ UNCHANGED <<dom, obj, request, response, net, workers, files, auth, api, axe, checkout, mock, ev, gql>>

Constructed(class, c) ==
  /\ last.op = "idle"
  /\ OneRegion(dom, class)
  /\ obj' = c.this
  /\ last' = [Idle EXCEPT !.op = "new", !.args = <<class>>, !.pre = dom,
                          !.events = c.events, !.queries = c.queries]
  /\ UNCHANGED <<dom, request, response, net, workers, files, auth, api, axe, checkout, mock, ev, gql>>

NewHeaderComponent == Constructed("HeaderComponent", HeaderComponent("page"))

NewFooterComponent == Constructed("FooterComponent", FooterComponent("page"))

NewProductPage == Constructed("ProductPage", ProductPage("page"))

NewDashboardPage == Constructed("DashboardPage", DashboardPage("page"))

NewLoginPage == Constructed("LoginPage", LoginPage("page"))

clickLogo ==
  \E h \in Headers : Called("HeaderComponent.clickLogo", <<>>,
                             HeaderComponent_clickLogo(h, Run(dom)))

search ==
  \E h \in Headers, q \in Queries :
    Called("HeaderComponent.search", <<q>>, HeaderComponent_search(h, Run(dom), q))

openUserMenu ==
  \E h \in Headers : Called("HeaderComponent.openUserMenu", <<>>,
                             HeaderComponent_openUserMenu(h, Run(dom)))

logout ==
  \E h \in Headers, reveal \in ElemStates :
    Called("HeaderComponent.logout", <<reveal>>, HeaderComponent_logout(h, Run(dom), reveal))

navigateTo ==
  \E h \in Headers, t \in LinkTexts :
    Called("HeaderComponent.navigateTo", <<t>>, HeaderComponent_navigateTo(h, Run(dom), t))

headerIsVisible ==
  \E h \in Headers : Called("HeaderComponent.isVisible", <<>>,
                             HeaderComponent_isVisible(h, Run(dom)))

clickLink ==
  \E f \in Footers, t \in LinkTexts :
    Called("FooterComponent.clickLink", <<t>>, FooterComponent_clickLink(f, Run(dom), t))

getCopyrightText ==
  \E f \in Footers : Called("FooterComponent.getCopyrightText", <<>>,
                             FooterComponent_getCopyrightText(f, Run(dom)))

clickSocialLink ==
  \E f \in Footers, p \in Platforms :
    Called("FooterComponent.clickSocialLink", <<p>>,
           FooterComponent_clickSocialLink(f, Run(dom), p))

footerIsVisible ==
  \E f \in Footers : Called("FooterComponent.isVisible", <<>>,
                             FooterComponent_isVisible(f, Run(dom)))

getAllLinks ==
  \E f \in Footers : Called("FooterComponent.getAllLinks", <<>>,
                             FooterComponent_getAllLinks(f, Run(dom)))

\* the pass-through operations every subclass of BasePage inherits
basePageOp ==
  /\ Extends(obj.class) = "BasePage"
  /\ \/ Called("BasePage.getUrl", <<>>, BasePage_getUrl(obj, Run(dom)))
     \/ Called("BasePage.getTitle", <<>>, BasePage_getTitle(obj, Run(dom)))
     \/ Called("BasePage.waitForLoadState", <<>>, BasePage_waitForLoadState(obj, Run(dom)))
     \/ Called("BasePage.takeScreenshot", <<>>, BasePage_takeScreenshot(obj, Run(dom)))

addToCart ==
  /\ obj.class = "ProductPage"
  /\ Called("ProductPage.addToCart", <<>>, ProductPage_addToCart(obj, Run(dom)))

addToCartWithOptions ==
  /\ obj.class = "ProductPage"
  /\ \E options \in OptionSets :
       Called("ProductPage.addToCartWithOptions", <<options>>,
              ProductPage_addToCartWithOptions(obj, Run(dom), options))

productText ==
  /\ obj.class = "ProductPage"
  /\ \/ Called("ProductPage.getProductTitle", <<>>, ProductPage_getProductTitle(obj, Run(dom)))
     \/ Called("ProductPage.getProductPrice", <<>>, ProductPage_getProductPrice(obj, Run(dom)))
     \/ Called("ProductPage.getProductDescription", <<>>,
               ProductPage_getProductDescription(obj, Run(dom)))

searchProduct ==
  /\ obj.class = "ProductPage"
  /\ \E q \in Queries :
       Called("ProductPage.searchProduct", <<q>>, ProductPage_searchProduct(obj, Run(dom), q))

scrollToReviews ==
  /\ obj.class = "ProductPage"
  /\ Called("ProductPage.scrollToReviews", <<>>, ProductPage_scrollToReviews(obj, Run(dom)))

productIsLoaded ==
  /\ obj.class = "ProductPage"
  /\ Called("ProductPage.isLoaded", <<>>, ProductPage_isLoaded(obj, Run(dom)))

navigateToTransactions ==
  /\ obj.class = "DashboardPage"
  /\ Called("DashboardPage.navigateToTransactions", <<>>,
            DashboardPage_navigateToTransactions(obj, Run(dom)))

getWelcomeMessage ==
  /\ obj.class = "DashboardPage"
  /\ Called("DashboardPage.getWelcomeMessage", <<>>,
            DashboardPage_getWelcomeMessage(obj, Run(dom)))

dashboardLogout ==
  /\ obj.class = "DashboardPage"
  /\ \E reveal \in ElemStates :
       Called("DashboardPage.logout", <<reveal>>, DashboardPage_logout(obj, Run(dom), reveal))

goHome ==
  /\ obj.class = "DashboardPage"
  /\ Called("DashboardPage.goHome", <<>>, DashboardPage_goHome(obj, Run(dom)))

getStatsCount ==
  /\ obj.class = "DashboardPage"
  /\ Called("DashboardPage.getStatsCount", <<>>, DashboardPage_getStatsCount(obj, Run(dom)))

dashboardIsLoaded ==
  /\ obj.class = "DashboardPage"
  /\ Called("DashboardPage.isLoaded", <<>>, DashboardPage_isLoaded(obj, Run(dom)))

login ==
  /\ obj.class = "LoginPage"
  /\ \E e \in Emails, p \in Passwords :
       \/ Called("LoginPage.login", <<e, p>>, LoginPage_login(obj, Run(dom), e, p))
       \/ Called("LoginPage.loginWithRememberMe", <<e, p>>,
                 LoginPage_loginWithRememberMe(obj, Run(dom), e, p))
       \/ Called("LoginPage.fillEmail", <<e>>, LoginPage_fillEmail(obj, Run(dom), e))
       \/ Called("LoginPage.fillPassword", <<p>>, LoginPage_fillPassword(obj, Run(dom), p))

clickForgotPassword ==
  /\ obj.class = "LoginPage"
  /\ Called("LoginPage.clickForgotPassword", <<>>,
            LoginPage_clickForgotPassword(obj, Run(dom)))

getErrorMessage ==
  /\ obj.class = "LoginPage"
  /\ Called("LoginPage.getErrorMessage", <<>>, LoginPage_getErrorMessage(obj, Run(dom)))

hasErrorMessage ==
  /\ obj.class = "LoginPage"
  /\ Called("LoginPage.hasErrorMessage", <<>>, LoginPage_hasErrorMessage(obj, Run(dom)))

isFormVisible ==
  /\ obj.class = "LoginPage"
  /\ Called("LoginPage.isFormVisible", <<>>, LoginPage_isFormVisible(obj, Run(dom)))

(***************************************************************************)
(* Mocked routes of interceptor-examples.spec.js                            *)
(*                                                                          *)
(* A JavaScript object is the sequence of its <<key, value>> entries in     *)
(* insertion order, with one entry per key; JSON text is the sequence of    *)
(* the entries it spells out.                                               *)
(***************************************************************************)
ObjHas(o, k) == \E i \in 1..Len(o) : o[i][1] = k

ObjGet(o, k) == LET i == CHOOSE j \in 1..Len(o) : o[j][1] = k IN o[i][2]

ObjKeys(o) == {o[i][1] : i \in 1..Len(o)}

\* o[k] = v: a key already there keeps its place and takes the new value
ObjSet(o, k, v) ==
  IF ObjHas(o, k)
  THEN [i \in 1..Len(o) |-> IF o[i][1] = k THEN <<k, v>> ELSE o[i]]
  ELSE Append(o, <<k, v>>)

\* { ...o, ...src }
RECURSIVE Spread(_, _)
Spread(o, src) ==
  IF src = <<>> THEN o
  ELSE Spread(ObjSet(o, Head(src)[1], Head(src)[2]), Tail(src))

IsDefined(entry) == entry[2] # Undefined

\* JSON.stringify leaves out the properties whose value is undefined
JSON_stringify(o) == [json |-> SelectSeq(o, IsDefined)]

JSON_parse(text) == Spread(<<>>, text.json)

EmptyObjectText == [json |-> <<>>]

\* the empty string, as a request body
EmptyText == [empty |-> ""]

\* request.postData() || '{}': null (no body) and '' are falsy
PostDataOrEmpty(req) ==
  IF req.hasBody /\ "empty" \notin DOMAIN req.postData THEN req.postData
  ELSE EmptyObjectText

NoFulfill(err) == [status |-> 0, body |-> EmptyObjectText, err |-> err]

\* mutant: the payload is spread before id, so the generated id always wins
route_posts_idLast(req) ==
  LET postData == JSON_parse(PostDataOrEmpty(req))
  IN  IF ~ObjHas(postData, "title") \/ ~ObjHas(postData, "body")
      THEN NoFulfill("expect")
      ELSE [status |-> 201,
            body |-> JSON_stringify(ObjSet(ObjSet(Spread(<<>>, postData), "id", "999"),
                                           "userId", "1")),
            err |-> NoErr]

\* page.route('**/api/posts', ...)
route_posts(req) ==
  LET postData == JSON_parse(PostDataOrEmpty(req))
  IN  IF ~ObjHas(postData, "title") \/ ~ObjHas(postData, "body")
      THEN NoFulfill("expect")
      ELSE [status |-> 201,
            body |-> JSON_stringify(ObjSet(Spread(<<<<"id", "999">>>>, postData),
                                           "userId", "1")),
            err |-> NoErr]

\* page.route('**/api/users/1', ...)
route_users1(req) ==
  LET updateData == JSON_parse(PostDataOrEmpty(req))
  IN  IF req.method # "PUT"
      THEN NoFulfill("expect")
      ELSE [status |-> 200,
            body |-> JSON_stringify(ObjSet(Spread(<<<<"id", "1">>>>, updateData),
                                           "updated", "true")),
            err |-> NoErr]

PayloadField(name, values) == {<<>>} \cup {<< <<name, v>> >> : v \in values}

\* the objects a page script passes to JSON.stringify
Payloads == {t \o b \o i \o u \o n \o d :
               t \in PayloadField("title", {"Test Post", Undefined}),
               b \in PayloadField("body", {"Test Body"}),
               i \in PayloadField("id", {"7"}),
               u \in PayloadField("userId", {"1", "2"}),
               n \in PayloadField("name", {"Updated Name"}),
               d \in PayloadField("updated", {"false"})}

Methods == {"POST", "PUT"}

\* fetch(url, { method, body: JSON.stringify(payload) }) and res.json() in the page
Fetched(url, req, res) ==
  /\ request' = [req EXCEPT !.url = url]
  /\ response' = [status |-> res.status, err |-> res.err,
                  data |-> IF res.err = NoErr THEN JSON_parse(res.body) ELSE <<>>]
  /\ UNCHANGED <<dom, obj, last, net, workers, files, auth, api, axe, checkout, mock, ev, gql>>

Requests ==
  {[url |-> "", method |-> m, hasBody |-> TRUE, payload |-> p, postData |-> JSON_stringify(p)] :
     m \in Methods, p \in Payloads}
  \cup {[url |-> "", method |-> m, hasBody |-> FALSE, payload |-> <<>>,
         postData |-> EmptyObjectText] : m \in Methods}

fetchPosts == \E req \in Requests : Fetched("/api/posts", req, route_posts(req))

fetchUsers1 == \E req \in Requests : Fetched("/api/users/1", req, route_users1(req))

(***************************************************************************)
(* Route interception scenarios                                             *)
(*                                                                          *)
(* A URL and a glob are the sequences of their pieces between "/".  A       *)
(* scenario is the sequence of its statements that register or remove a     *)
(* route, issue a request or assert on the outcome; the real network        *)
(* answers a request that no route fulfils.                                 *)
(***************************************************************************)
example_com(path) == <<"https:", "", "example.com">> \o path

jsonplaceholder(path) == <<"https:", "", "jsonplaceholder.typicode.com">> \o path

\* a piece of a glob without "/" matches the same piece; "*" any one piece
SegmentMatches(g, s) == g = "*" \/ g = s

\* "**/" stands for any number of leading pieces, a trailing "/**" for the "/" and
\* whatever follows it
RECURSIVE urlMatches(_, _)
urlMatches(url, glob) ==
  IF glob = <<>> THEN url = <<>>
  ELSE IF Head(glob) = "**"
       THEN IF Len(glob) = 1 THEN url # <<>>
            ELSE \/ urlMatches(url, Tail(glob))
                 \/ url # <<>> /\ urlMatches(Tail(url), glob)
       ELSE /\ url # <<>>
            /\ SegmentMatches(Head(glob), Head(url))
            /\ urlMatches(Tail(url), Tail(glob))

NotJson == [html |-> "<!doctype html>"]

IsJson(text) == "json" \in DOMAIN text

\* request.headers() has lower-case names
HeaderName(n) == CASE n = "X-Modified" -> "x-modified"
                   [] n = "Content-Type" -> "content-type"
                   [] n = "Authorization" -> "authorization"
                   [] OTHER -> n

NoHeaders == <<>>

ContentTypeJson == << <<"Content-Type", "application/json">> >>

\* request.headers()
request_headers(req) ==
  Spread(<<>>, [i \in 1..Len(req.headers) |->
                  <<HeaderName(req.headers[i][1]), req.headers[i][2]>>])

\* request.headers()[name]
HeaderValue(req, name) ==
  IF ObjHas(request_headers(req), name) THEN ObjGet(request_headers(req), name)
  ELSE Undefined

PageRequest(url, method, headers, payload) ==
  [url |-> url, method |-> method, headers |-> headers, hasBody |-> TRUE,
   payload |-> payload, postData |-> JSON_stringify(payload)]

PageGet(url) ==
  [url |-> url, method |-> "GET", headers |-> NoHeaders, hasBody |-> FALSE,
   payload |-> <<>>, postData |-> EmptyObjectText]

\* what a route handler did with the route
Fulfilled(status, body) ==
  [act |-> "fulfill", status |-> status, body |-> JSON_stringify(body),
   headers |-> NoHeaders, err |-> NoErr]

Continued(headers) ==
  [act |-> "continue", status |-> 0, body |-> EmptyObjectText,
   headers |-> headers, err |-> NoErr]

Threw(err) ==
  [act |-> "throw", status |-> 0, body |-> EmptyObjectText,
   headers |-> NoHeaders, err |-> err]

\* the handlers of the mock routes answer with status, body and error
Handled(res) ==
  IF res.err = NoErr
  THEN [act |-> "fulfill", status |-> res.status, body |-> res.body,
        headers |-> NoHeaders, err |-> NoErr]
  ELSE Threw(res.err)

\* page.route('**/api/users/**', ...) of the GET scenario: route.fetch() first
route_mockUser(req, real) ==
  IF real.err # NoErr THEN Threw(real.err)
  ELSE IF ~IsJson(real.body) THEN Threw("SyntaxError")
  ELSE Fulfilled(200, << <<"id", "1">>, <<"name", "Mocked User">>,
                         <<"email", "mocked@example.com">> >>)

\* JSON texts that are not objects, and a body that is no JSON at all
NullText == [literal |-> "null"]

ArrayText == [literal |-> "[]"]

FormText == [form |-> "username=admin&password=admin123"]

\* JSON.parse(text) returns instead of throwing a SyntaxError
Parses(text) == "json" \in DOMAIN text \/ "literal" \in DOMAIN text

\* body.username and body.password of the parsed body; an array has neither
Credentials(text) ==
  LET body == IF "json" \in DOMAIN text THEN JSON_parse(text) ELSE <<>>
  IN  [username |-> IF ObjHas(body, "username") THEN ObjGet(body, "username") ELSE Undefined,
       password |-> IF ObjHas(body, "password") THEN ObjGet(body, "password") ELSE Undefined]

\* the body of both login handlers up to the values they compare with and answer
LoginHandler(req, username, password, success, failure) ==
  LET text == PostDataOrEmpty(req)
  IN  IF ~Parses(text) THEN Threw("SyntaxError")
      ELSE IF text = NullText THEN Threw("TypeError")
      ELSE LET body == Credentials(text)
           IN  IF body.username = username /\ body.password = password
               THEN Fulfilled(200, success)
               ELSE Fulfilled(401, failure)

\* page.route('**/api/login', ...) of 'Intercept with conditional logic based on request data'
route_login(req) ==
  LoginHandler(req, "admin", "admin123",
               << <<"token", "mock-token-123">>, <<"message", "Login successful">> >>,
               << <<"message", "Invalid credentials">> >>)

\* page.route('**/api/login', ...) of 'Mock Login API without external website'
route_mockLogin(req) ==
  LoginHandler(req, "abhinav", "123",
               << <<"message", "Login successful! Welcome Abhinav.">> >>,
               << <<"message", "Invalid username or password">> >>)

\* page.route('**/api/**/details', ...)
route_details(req) == Fulfilled(200, << <<"details", "matched pattern">> >>)

\* page.route('**/api/data', ...) of the unroute scenario
route_data(req) == Fulfilled(200, << <<"data", "mocked">> >>)

\* first page.route('**/api/data', ...) of the modify-and-continue scenario
route_addHeader(req) ==
  Continued(Spread(request_headers(req), << <<"X-Modified", "true">> >>))

\* second page.route('**/api/data', ...) of the modify-and-continue scenario
route_reportHeader(req) ==
  LET modifiedHeader == HeaderValue(req, "x-modified")
  IN  Fulfilled(200, << <<"headerModified",
                          IF modifiedHeader = "true" THEN "true" ELSE "false">> >>)

AjioAnswer == << <<"failed_items", "[]">>, <<"success", "Ajio251024184425">> >>

\* page.route('**/ajio/orders', ...) of the request-context scenario
route_ajioOrders(req) ==
  LET payload == JSON_parse(PostDataOrEmpty(req))
  IN  IF \/ req.method # "POST"
         \/ ~ObjHas(payload, "order_id") \/ ~ObjHas(payload, "status")
      THEN Threw("expect")
      ELSE IF \/ ObjGet(payload, "order_id") # "Ajio251024184425"
              \/ ObjGet(payload, "status") # "Acknowledge"
      THEN Threw("expect")
      ELSE Fulfilled(200, AjioAnswer)

\* context.route('**/api/orders', ...)
route_orders(req) ==
  IF req.method # "POST" THEN Threw("expect")
  ELSE Fulfilled(200, << <<"success", "true">> >>)

Handlers == {"mockUser", "posts", "login", "users1", "details", "data",
             "addHeader", "reportHeader", "ajioOrders", "orders"}

RunHandler(h, req, real) ==
  CASE h = "mockUser" -> route_mockUser(req, real)
    [] h = "posts" -> Handled(route_posts(req))
    [] h = "login" -> route_login(req)
    [] h = "users1" -> Handled(route_users1(req))
    [] h = "details" -> route_details(req)
    [] h = "data" -> route_data(req)
    [] h = "addHeader" -> route_addHeader(req)
    [] h = "reportHeader" -> route_reportHeader(req)
    [] h = "ajioOrders" -> route_ajioOrders(req)
    [] h = "orders" -> route_orders(req)

\* the answers of the real servers: jsonplaceholder serves users/1 and accepts posts,
\* example.com has none of the paths; any request may also fail on the way
NetworkFailed == [status |-> 0, body |-> EmptyObjectText, err |-> "net::ERR_FAILED"]

ServerReplies(req) ==
  IF req.url = jsonplaceholder(<<"users", "1">>) /\ req.method = "GET"
  THEN {[status |-> 200, err |-> NoErr,
         body |-> JSON_stringify(<< <<"id", "1">>, <<"name", "Leanne Graham">> >>)]}
  ELSE IF req.url = jsonplaceholder(<<"posts">>) /\ req.method = "POST"
  THEN {[status |-> 201, err |-> NoErr,
         body |-> JSON_stringify(Spread(req.payload, << <<"id", "101">> >>))]}
  ELSE {[status |-> s, err |-> NoErr, body |-> NotJson] : s \in {404, 405}}

NetworkReplies(req) == ServerReplies(req) \cup {NetworkFailed}

\* the id tells the registrations of one handler for one glob apart
Route(id, scope, glob, handler) ==
  [id |-> id, scope |-> scope, glob |-> glob, handler |-> handler]

\* the routes matching the URL, in the order they are tried: the routes of the page
\* before those of its context, and within each the one registered last first
RECURSIVE HandlersFor(_, _, _)
HandlersFor(routes, scope, url) ==
  IF routes = <<>> THEN <<>>
  ELSE LET r == routes[Len(routes)]
           rest == HandlersFor(SubSeq(routes, 1, Len(routes) - 1), scope, url)
       IN  IF r.scope = scope /\ urlMatches(url, r.glob)
           THEN <<r>> \o rest ELSE rest

RouteChain(routes, url) ==
  HandlersFor(routes, "page", url) \o HandlersFor(routes, "context", url)

NoAnswer ==
  [by |-> "none", at |-> 0, url |-> <<>>, via |-> "none", handler |-> "none",
   route |-> 0, ran |-> <<>>, seen |-> NoHeaders,
   sent |-> NoHeaders, status |-> 0, body |-> EmptyObjectText, err |-> NoErr]

\* a request of the page goes to the first handler of the chain; a fulfilled route
\* answers it, a continued one sends it to the network with the overrides, a handler
\* that throws leaves it unanswered
Intercepted(chain, req, real) ==
  IF chain = <<>>
  THEN [NoAnswer EXCEPT !.by = "page", !.url = req.url, !.via = "network",
                        !.sent = request_headers(req), !.status = real.status,
                        !.body = real.body, !.err = real.err]
  ELSE LET h == Head(chain).handler
           out == RunHandler(h, req, real)
           base == [NoAnswer EXCEPT !.by = "page", !.url = req.url, !.handler = h,
                                    !.route = Head(chain).id, !.ran = <<h>>,
                                    !.seen = request_headers(req)]
       IN  CASE out.act = "fulfill" ->
                  [base EXCEPT !.via = "route", !.status = out.status, !.body = out.body]
             [] out.act = "continue" ->
                  [base EXCEPT !.via = "network", !.sent = out.headers,
                               !.status = real.status, !.body = real.body,
                               !.err = real.err]
             [] OTHER ->
                  [base EXCEPT !.via = "none", !.err = out.err]

\* a request of an API request context is sent by the test process itself and never
\* passes the routes of a page or of a browser context
ApiRequested(req, real) ==
  [NoAnswer EXCEPT !.by = "api", !.url = req.url, !.via = "network",
                   !.sent = request_headers(req),
                   !.status = real.status, !.body = real.body, !.err = real.err]

\* mutant: unroute leaves the routes where they are
Unrouted_kept(routes, glob) == routes

\* page.unroute(glob) takes every route of the page registered for the glob away
Unrouted(routes, glob) ==
  LET Kept(r) == ~(r.scope = "page" /\ r.glob = glob)
  IN  SelectSeq(routes, Kept)

OrderPayload == << <<"order_id", "Ajio251024184425">>, <<"status", "Acknowledge">> >>

Scenarios == {"getUser", "postPost", "login", "putUser", "details", "unroute",
              "modifyContinue", "ajioRequest", "contextOrders"}

\* the statements of each scenario, in program order
Script(s) ==
  CASE s = "getUser" ->
         << [op |-> "route", scope |-> "page", glob |-> <<"**", "api", "users", "**">>,
             handler |-> "mockUser"],
            [op |-> "setContent", req |-> PageGet(jsonplaceholder(<<"users", "1">>)),
             then |-> "json", show |-> "name"],
            [op |-> "toHaveText", text |-> "Mocked User"] >>
    [] s = "postPost" ->
         << [op |-> "route", scope |-> "page", glob |-> <<"**", "api", "posts">>,
             handler |-> "posts"],
            [op |-> "setContent",
             req |-> PageRequest(jsonplaceholder(<<"posts">>), "POST", ContentTypeJson,
                                 << <<"title", "Test Post">>, <<"body", "Test Body">> >>),
             then |-> "json", show |-> "id"],
            [op |-> "toHaveText", text |-> "999"],
            [op |-> "notToBeNull"] >>
    [] s = "login" ->
         << [op |-> "route", scope |-> "page", glob |-> <<"**", "api", "login">>,
             handler |-> "login"],
            [op |-> "setContent",
             req |-> PageRequest(example_com(<<"api", "login">>), "POST", ContentTypeJson,
                                 << <<"username", "admin">>, <<"password", "admin123">> >>),
             then |-> "json", show |-> "message"],
            [op |-> "toHaveText", text |-> "Login successful"] >>
    [] s = "putUser" ->
         << [op |-> "route", scope |-> "page", glob |-> <<"**", "api", "users", "1">>,
             handler |-> "users1"],
            [op |-> "setContent",
             req |-> PageRequest(example_com(<<"api", "users", "1">>), "PUT",
                                 ContentTypeJson, << <<"name", "Updated Name">> >>),
             then |-> "json", show |-> "name"],
            [op |-> "toHaveText", text |-> "Updated Name"] >>
    [] s = "details" ->
         << [op |-> "route", scope |-> "page", glob |-> <<"**", "api", "**", "details">>,
             handler |-> "details"],
            [op |-> "setContent", req |-> PageGet(example_com(<<"api", "users", "details">>)),
             then |-> "json", show |-> "details"],
            [op |-> "toHaveText", text |-> "matched pattern"] >>
    [] s = "unroute" ->
         << [op |-> "route", scope |-> "page", glob |-> <<"**", "api", "data">>,
             handler |-> "data"],
            [op |-> "unroute", glob |-> <<"**", "api", "data">>],
            [op |-> "setContent", req |-> PageGet(example_com(<<"api", "data">>)),
             then |-> "catch", show |-> "no-interceptor"] >>
    [] s = "modifyContinue" ->
         << [op |-> "route", scope |-> "page", glob |-> <<"**", "api", "data">>,
             handler |-> "addHeader"],
            [op |-> "route", scope |-> "page", glob |-> <<"**", "api", "data">>,
             handler |-> "reportHeader"],
            [op |-> "setContent", req |-> PageGet(example_com(<<"api", "data">>)),
             then |-> "json", show |-> "headerModified"] >>
    [] s = "ajioRequest" ->
         << [op |-> "route", scope |-> "page", glob |-> <<"**", "ajio", "orders">>,
             handler |-> "ajioOrders"],
            [op |-> "post",
             req |-> PageRequest(example_com(<<"ajio", "orders">>), "POST",
                                 ContentTypeJson, OrderPayload)],
            [op |-> "statusToBe", status |-> 200],
            [op |-> "jsonToEqual", json |-> AjioAnswer] >>
    [] s = "contextOrders" ->
         << [op |-> "route", scope |-> "context", glob |-> <<"**", "api", "orders">>,
             handler |-> "orders"],
            [op |-> "post",
             req |-> PageRequest(example_com(<<"api", "orders">>), "POST",
                                 ContentTypeJson, << <<"id", "order-1">> >>)],
            [op |-> "statusToBe", status |-> 200],
            [op |-> "jsonToEqual", json |-> << <<"success", "true">> >>] >>

NoScenario ==
  [scenario |-> "none", pc |-> 0, routes |-> <<>>, registered |-> 0, removed |-> {},
   answer |-> NoAnswer,
   result |-> "", status |-> "idle"]

\* the statements a scenario written against the same page may be made of
FreeGlobs == {<<"**", "api", "data">>, <<"**", "api", "**">>}

FreeStatements ==
  {[op |-> "route", scope |-> sc, glob |-> g, handler |-> h] :
     sc \in {"page", "context"}, g \in FreeGlobs,
     h \in {"data", "addHeader", "reportHeader"}}
  \cup {[op |-> "unroute", glob |-> g] : g \in FreeGlobs}
  \cup {[op |-> "setContent", req |-> PageGet(example_com(<<"api", "data">>)),
         then |-> "json", show |-> f] : f \in {"data", "headerModified"}}

\* the statements the scenario may be at: the next one of its script, or any
\* statement while a free scenario has steps left
Statements ==
  IF net.status # "running" THEN {}
  ELSE IF net.scenario = "free"
  THEN IF net.pc <= MaxSteps THEN FreeStatements ELSE {}
  ELSE IF net.pc <= Len(Script(net.scenario)) THEN {Script(net.scenario)[net.pc]}
  ELSE {}

Stepped(n) ==
  /\ net' = [n EXCEPT !.pc = net.pc + 1]
  /\ UNCHANGED <<dom, obj, last, request, response, workers, files, auth, api, axe, checkout, mock, ev, gql>>

Failed(n) ==
  /\ net' = [n EXCEPT !.status = "failed"]
  /\ UNCHANGED <<dom, obj, last, request, response, workers, files, auth, api, axe, checkout, mock, ev, gql>>

\* the runner starts a scenario on a fresh page
StartScenario ==
  \E s \in Scenarios \cup {"free"} :
    /\ net.status # "running"
    /\ net' = [NoScenario EXCEPT !.scenario = s, !.pc = 1, !.status = "running"]
    /\ UNCHANGED <<dom, obj, last, request, response, workers, files, auth, api, axe, checkout, mock, ev, gql>>

\* await page.route(glob, handler) / context.route(glob, handler)
page_route ==
  \E stmt \in Statements :
    /\ stmt.op = "route"
    /\ Stepped([net EXCEPT !.registered = @ + 1,
                           !.routes = Append(@, Route(net.registered + 1, stmt.scope,
                                                      stmt.glob, stmt.handler))])

\* the registrations an unroute(glob) of the page is called for, with the step of the call
Removed(routes, glob, pc) ==
  {<<routes[i].id, pc>> : i \in {j \in 1..Len(routes) :
                                   routes[j].scope = "page" /\ routes[j].glob = glob}}

\* await page.unroute(glob)
page_unroute ==
  \E stmt \in Statements :
    /\ stmt.op = "unroute"
    /\ Stepped([net EXCEPT !.routes = Unrouted(net.routes, stmt.glob),
                           !.removed = @ \cup Removed(net.routes, stmt.glob, net.pc)])

\* what the script of the page writes into #result once its fetch has settled
Shown(stmt, answer) ==
  CASE stmt.then = "json" ->
         IF answer.via # "none" /\ answer.err = NoErr /\ IsJson(answer.body)
         THEN LET data == JSON_parse(answer.body)
              IN  IF ObjHas(data, stmt.show) THEN ObjGet(data, stmt.show) ELSE ""
         ELSE ""
    [] stmt.then = "catch" ->
         IF answer.via # "none" /\ answer.err # NoErr THEN stmt.show ELSE ""

\* await page.setContent(html) and the fetch of its script, settled within the
\* waitForTimeout that follows; a handler that throws fails the scenario
page_setContent ==
  \E stmt \in Statements :
    /\ stmt.op = "setContent"
    /\ \E real \in NetworkReplies(stmt.req) :
         LET answer == [Intercepted(RouteChain(net.routes, stmt.req.url), stmt.req, real)
                          EXCEPT !.at = net.pc]
             n == [net EXCEPT !.answer = answer, !.result = Shown(stmt, answer)]
         IN  IF answer.via = "none" THEN Failed(n) ELSE Stepped(n)

\* await page.request.post(url, { data }): rejects when the request fails
request_post ==
  \E stmt \in Statements :
    /\ stmt.op = "post"
    /\ \E real \in NetworkReplies(stmt.req) :
         LET answer == [ApiRequested(stmt.req, real) EXCEPT !.at = net.pc]
             n == [net EXCEPT !.answer = answer]
         IN  IF answer.err # NoErr THEN Failed(n) ELSE Stepped(n)

Expected(stmt, n) ==
  CASE stmt.op = "toHaveText" -> n.result = stmt.text
    [] stmt.op = "notToBeNull" -> n.answer.ran # <<>>
    [] stmt.op = "statusToBe" -> n.answer.status = stmt.status
    [] stmt.op = "jsonToEqual" ->
         IsJson(n.answer.body) /\ JSON_parse(n.answer.body) = stmt.json

\* await expect(...): a failed expectation ends the scenario
expect ==
  \E stmt \in Statements :
    /\ stmt.op \in {"toHaveText", "notToBeNull", "statusToBe", "jsonToEqual"}
    /\ IF Expected(stmt, net) THEN Stepped(net) ELSE Failed(net)

\* the scenario has run its last statement
EndScenario ==
  /\ net.status = "running"
  /\ net.pc > 1
  /\ net.scenario = "free" \/ Statements = {}
  /\ net' = [net EXCEPT !.status = "passed"]
  /\ UNCHANGED <<dom, obj, last, request, response, workers, files, auth, api, axe, checkout, mock, ev, gql>>

(***************************************************************************)
(* The test runner: workers executing scenarios in parallel                 *)
(*                                                                          *)
(* A worker executes one scenario of one project at a time.  A statement    *)
(* of a scenario starts its operations, which are then in flight until      *)
(* they settle; a route handler or an event callback may start an           *)
(* operation of its own while the script waits.                             *)
(***************************************************************************)
\* workers: process.env.CI ? 2 : undefined
Workers == 1..2

\* two of the browser projects of the configuration
Projects == {"chromium-desktop", "firefox-desktop"}

\* await op
Await(op) == [kind |-> "await", ops |-> {op}, ctx |-> 0, path |-> "", cb |-> "none"]

\* await op, during which the page may call a registered handler or callback
AwaitWith(op, cb) == [Await(op) EXCEPT !.cb = cb]

\* await Promise.all([op1, op2])
AwaitAll(ops) == [kind |-> "all", ops |-> ops, ctx |-> 0, path |-> "", cb |-> "none"]

\* const context = await browser.newContext()
NewContext(c) == [Await("browser.newContext") EXCEPT !.kind = "newContext", !.ctx = c]

\* const context = await browser.newContext({ storageState: path })
NewContextFrom(c, path) == [NewContext(c) EXCEPT !.path = path]

\* await context.close()
CloseContext(c) == [Await("context.close") EXCEPT !.kind = "close", !.ctx = c]

\* await page.screenshot({ path }) / context.storageState({ path })
WriteFile(op, path) == [Await(op) EXCEPT !.kind = "write", !.path = path]

ScreenshotPath == "example-screenshot.png"

AuthStatePath == "tests/.authState.json"

Paths == {ScreenshotPath, AuthStatePath}

RunTests == {"dialog", "newTab", "screenshot", "browserContext", "contextEvents",
             "mobileHindi", "isolatedContext", "storageState", "latency",
             "notifyApi", "ajioRequest"}

\* the statements of each scenario that touch the browser, in program order
RunScript(t) ==
  CASE t = "dialog" ->
         << Await("page.goto"), AwaitWith("page.click", "dialog.accept") >>
    [] t = "newTab" ->
         << Await("page.goto"), AwaitAll({"page.waitForEvent", "page.click"}),
            Await("newPage.waitForLoadState"), Await("newPage.title"),
            Await("newPage.close") >>
    [] t = "screenshot" ->
         << Await("page.goto"), WriteFile("page.screenshot", ScreenshotPath) >>
    [] t = "browserContext" ->
         << NewContext(1), Await("context.grantPermissions"),
            Await("context.clearPermissions"), Await("context.addCookies"),
            Await("context.newPage"), Await("page.goto"),
            WriteFile("page.screenshot", ScreenshotPath) >>
    [] t = "contextEvents" ->
         << NewContext(1), Await("context.newPage"), Await("page.goto") >>
    [] t = "mobileHindi" ->
         << NewContext(1), Await("context.newPage"), Await("page.goto") >>
    [] t = "isolatedContext" ->
         << NewContext(1), Await("context.newPage"), Await("page.goto"),
            Await("page.viewportSize"), CloseContext(1) >>
    [] t = "storageState" ->
         << NewContext(1), Await("context.addCookies"), Await("context.cookies"),
            WriteFile("context.storageState", AuthStatePath), CloseContext(1),
            NewContextFrom(2, AuthStatePath), Await("context.cookies"),
            CloseContext(2) >>
    [] t = "latency" ->
         << Await("page.route"), AwaitWith("page.setContent", "route.fulfill"),
            Await("page.waitForTimeout"), Await("expect.toHaveText") >>
    [] t = "notifyApi" ->
         << Await("page.route"), Await("page.goto"), Await("page.click"),
            Await("request.post"), Await("expect.toBeVisible") >>
    [] t = "ajioRequest" ->
         << NewContext(1), Await("context.newPage"), Await("page.route"),
            Await("request.post"), CloseContext(1) >>

Idling ==
  [test |-> "none", project |-> "none", pc |-> 0, started |-> FALSE, status |-> "idle",
   inflight |-> {}, fired |-> FALSE, contexts |-> {}]

\* the operations of the script, as opposed to those of handlers, in flight
ScriptOps(ex) == {o \in ex.inflight : o.by = "script"}

\* mutant: the script goes on without awaiting what it started
Settled_unawaited(ex) == TRUE

\* every operation the statement started has settled
Settled(ex) == ScriptOps(ex) = {}

Current(ex) == RunScript(ex.test)[ex.pc]

Running(ex) == ex.status = "running" /\ ex.pc <= Len(RunScript(ex.test))

\* a scenario that ends gives up what it held of the files it touched
Released(w) == [p \in Paths |-> files[p] \ {w}]

\* a free worker takes a scenario of a project that no other worker is executing
BeginTest(w) ==
  \E t \in RunTests, p \in Projects :
    /\ workers[w].status # "running"
    /\ \A v \in Workers \ {w} :
         workers[v].status = "running" => <<workers[v].test, workers[v].project>> # <<t, p>>
    /\ workers' = [workers EXCEPT ![w] = [Idling EXCEPT !.test = t, !.project = p,
                                                     !.pc = 1, !.status = "running"]]
    /\ files' = Released(w)
    /\ UNCHANGED <<dom, obj, last, request, response, net, auth, api, axe, checkout, mock, ev, gql>>

\* the script reaches a statement and starts its operations
StartStatement(w) ==
  LET ex == workers[w]
  IN  /\ Running(ex) /\ ~ex.started /\ Settled(ex)
      /\ workers' = [workers EXCEPT ![w] =
           [ex EXCEPT !.started = TRUE, !.fired = FALSE,
                      !.inflight = @ \cup {[op |-> o, by |-> "script", stmt |-> ex.pc] :
                                             o \in Current(ex).ops}]]
      /\ files' = IF Current(ex).path = "" THEN files
                  ELSE [files EXCEPT ![Current(ex).path] = @ \cup {w}]
      /\ UNCHANGED <<dom, obj, last, request, response, net, auth, api, axe, checkout, mock, ev, gql>>

\* the page calls the handler or callback registered for what the statement causes
TriggerCallback(w) ==
  LET ex == workers[w]
  IN  /\ Running(ex) /\ ex.started /\ ~ex.fired
      /\ Current(ex).cb # "none"
      /\ ScriptOps(ex) # {}
      /\ workers' = [workers EXCEPT ![w] =
           [ex EXCEPT !.fired = TRUE,
                      !.inflight = @ \cup {[op |-> Current(ex).cb, by |-> "handler",
                                            stmt |-> ex.pc]}]]
      /\ UNCHANGED <<dom, obj, last, request, response, net, files, auth, api, axe, checkout, mock, ev, gql>>

\* an operation in flight resolves
SettleOp(w) ==
  \E o \in workers[w].inflight :
    /\ workers[w].status = "running"
    /\ workers' = [workers EXCEPT ![w].inflight = @ \ {o}]
    /\ UNCHANGED <<dom, obj, last, request, response, net, files, auth, api, axe, checkout, mock, ev, gql>>

\* the awaited statement is over and the script moves to the next one
NextStatement(w) ==
  LET ex == workers[w]
      stmt == Current(ex)
  IN  /\ Running(ex) /\ ex.started /\ Settled(ex)
      /\ workers' = [workers EXCEPT ![w] =
           [ex EXCEPT !.pc = @ + 1, !.started = FALSE,
                      !.contexts = CASE stmt.kind = "newContext" -> @ \cup {stmt.ctx}
                                     [] stmt.kind = "close" -> @ \ {stmt.ctx}
                                     [] OTHER -> @]]
      /\ UNCHANGED <<dom, obj, last, request, response, net, files, auth, api, axe, checkout, mock, ev, gql>>

\* an awaited operation rejects, or an expectation fails: the scenario ends there
RejectOp(w) ==
  LET ex == workers[w]
  IN  /\ Running(ex) /\ ex.started /\ ScriptOps(ex) # {}
      /\ workers' = [workers EXCEPT ![w] =
           [ex EXCEPT !.status = "failed", !.started = FALSE, !.inflight = {}]]
      /\ files' = Released(w)
      /\ UNCHANGED <<dom, obj, last, request, response, net, auth, api, axe, checkout, mock, ev, gql>>

\* the scenario function returns
EndTest(w) ==
  LET ex == workers[w]
  IN  /\ ex.status = "running" /\ ex.pc > Len(RunScript(ex.test))
      /\ workers' = [workers EXCEPT ![w] = [ex EXCEPT !.status = "passed",
                                                      !.inflight = {}]]
      /\ files' = Released(w)
      /\ UNCHANGED <<dom, obj, last, request, response, net, auth, api, axe, checkout, mock, ev, gql>>

(***************************************************************************)
(* OCP-Playwright.js: authentication strategies and LoginTest               *)
(***************************************************************************)
AuthSelectors == {"#username", "#password", "#login", "#oauth-google", "#oauth-github"}

AuthUsers == {"user", "tomsmith"}

AuthPasswords == {"password"}

Providers == {"google", "github"}

\* page.fill(selector, value) / page.click(selector): not strict, the first element
\* the selector matches is waited for until it is actionable
page_act(r, kind, selector, value) ==
  IF r.err # NoErr THEN r
  ELSE LET e == r.dom[selector]
       IN  IF e.n = 0 \/ ~e.vis
           THEN [r EXCEPT !.err = "TimeoutError"]
           ELSE [r EXCEPT !.events = Append(@, <<kind, selector, value>>)]

page_fill(r, selector, value) == page_act(r, "fill", selector, value)

page_click(r, selector) == page_act(r, "click", selector, "")

Throw(r, message) == IF r.err # NoErr THEN r ELSE [r EXCEPT !.err = message]

AuthStrategy == [class |-> "AuthStrategy"]

AuthStrategy_authenticate(this, r) == Throw(r, "Authentication strategy not implemented")

UsernamePasswordAuth(username, password) ==
  [class |-> "UsernamePasswordAuth", username |-> username, password |-> password]

\* mutant: the password is filled before the username
UsernamePasswordAuth_authenticate_passwordFirst(this, r) ==
  page_click(page_fill(page_fill(r, "#password", this.password),
                       "#username", this.username), "#login")

UsernamePasswordAuth_authenticate(this, r) ==
  page_click(page_fill(page_fill(r, "#username", this.username),
                       "#password", this.password), "#login")

OAuthAuth(provider) == [class |-> "OAuthAuth", provider |-> provider]

\* `#oauth-${this.provider}`
OAuthSelector(provider) == CASE provider = "google" -> "#oauth-google"
                             [] provider = "github" -> "#oauth-github"

OAuthAuth_authenticate(this, r) == page_click(r, OAuthSelector(this.provider))

Strategies ==
  {AuthStrategy}
  \cup {UsernamePasswordAuth(u, p) : u \in AuthUsers, p \in AuthPasswords}
  \cup {OAuthAuth(p) : p \in Providers}

\* strategy.authenticate(page): the method of the object's own class
authenticate(strategy, r) ==
  CASE strategy.class = "UsernamePasswordAuth" -> UsernamePasswordAuth_authenticate(strategy, r)
    [] strategy.class = "OAuthAuth" -> OAuthAuth_authenticate(strategy, r)
    [] OTHER -> AuthStrategy_authenticate(strategy, r)

LoginTest(strategy) == [class |-> "LoginTest", strategy |-> strategy]

\* the run and the strategies whose authenticate it has called
LoginTest_run(this, r) ==
  [run |-> authenticate(this.strategy, r), calls |-> <<this.strategy>>]

NoLoginTest == [class |-> "none"]

NoRun == [op |-> "idle", pre |-> [s \in AuthSelectors |-> Absent], err |-> NoErr,
          events |-> <<>>, calls |-> <<>>]

NoAuth == [page |-> [s \in AuthSelectors |-> Absent], test |-> NoLoginTest, last |-> NoRun]

\* new LoginTest(new ...Auth(...))
NewLoginTest ==
  \E strategy \in Strategies :
    /\ auth' = [auth EXCEPT !.test = LoginTest(strategy), !.last = NoRun]
    /\ UNCHANGED <<dom, obj, last, request, response, net, workers, files, api, axe, checkout, mock, ev, gql>>

\* page.goto('/login'): the page the server answers with offers a control or not
AuthPageLoads ==
  \E s \in AuthSelectors, e \in ElemStates :
    /\ e # auth.page[s]
    /\ auth' = [auth EXCEPT !.page[s] = e, !.last = NoRun]
    /\ UNCHANGED <<dom, obj, last, request, response, net, workers, files, api, axe, checkout, mock, ev, gql>>

\* await loginTest.run(page)
LoginTestRun ==
  /\ auth.test.class = "LoginTest"
  /\ auth.last.op = "idle"
  /\ LET out == LoginTest_run(auth.test, Run(auth.page))
     IN  auth' = [auth EXCEPT !.last = [op |-> "LoginTest.run", pre |-> auth.page,
                                        err |-> out.run.err, events |-> out.run.events,
                                        calls |-> out.calls]]
  /\ UNCHANGED <<dom, obj, last, request, response, net, workers, files, api, axe, checkout, mock, ev, gql>>

(***************************************************************************)
(* part_000: 'Request timeout handling'                                     *)
(* Text is a sequence of characters, so that toContain is a real substring  *)
(* search.                                                                   *)
(***************************************************************************)
RequestTimeout == 100

Digit(d) == CASE d = 0 -> "0" [] d = 1 -> "1" [] d = 2 -> "2" [] d = 3 -> "3"
              [] d = 4 -> "4" [] d = 5 -> "5" [] d = 6 -> "6" [] d = 7 -> "7"
              [] d = 8 -> "8" [] d = 9 -> "9"

RECURSIVE String(_)
\* String(n) of a natural number
String(n) == IF n < 10 THEN <<Digit(n)>> ELSE String(n \div 10) \o <<Digit(n % 10)>>

\* String.prototype.includes, as toContain applies it to a string
Includes(s, sub) ==
  \E i \in 0..(Len(s) - Len(sub)) : SubSeq(s, i + 1, i + Len(sub)) = sub

Text_timeout ==
  <<"t", "i", "m", "e", "o", "u", "t">>

Text_toBe ==
  <<"e", "x", "p", "e", "c", "t", "(", "r", "e", "c", "e", "i", "v", "e", "d", ")",
    ".", "t", "o", "B", "e", "(", "e", "x", "p", "e", "c", "t", "e", "d", ")", " ",
    "/", "/", " ", "O", "b", "j", "e", "c", "t", ".", "i", "s", " ", "e", "q", "u",
    "a", "l", "i", "t", "y">>

Text_Expected ==
  <<" ", "E", "x", "p", "e", "c", "t", "e", "d", ":", " ">>

Text_Received ==
  <<" ", "R", "e", "c", "e", "i", "v", "e", "d", ":", " ">>

\* message of the error a failing expect(received).toBe(expected) throws
toBe_message(received, expected) ==
  Text_toBe \o Text_Expected \o String(expected) \o Text_Received \o String(received)

Text_RequestTimedOut ==
  <<"R", "e", "q", "u", "e", "s", "t", " ", "t", "i", "m", "e", "d", " ", "o", "u",
    "t", " ", "a", "f", "t", "e", "r", " ">>

Text_Timeout ==
  <<"T", "i", "m", "e", "o", "u", "t", " ">>

Text_ms ==
  <<"m", "s">>

Text_msExceeded ==
  <<"m", "s", " ", "e", "x", "c", "e", "e", "d", "e", "d">>

Text_apiGet ==
  <<"a", "p", "i", "R", "e", "q", "u", "e", "s", "t", "C", "o", "n", "t", "e", "x",
    "t", ".", "g", "e", "t", ":", " ">>

Text_requestTimeout ==
  <<"r", "e", "q", "u", "e", "s", "t", " ", "t", "i", "m", "e", "o", "u", "t", " ">>

\* messages the request library may reject with when the timeout elapses; the
\* wording belongs to the installed library version, which the repository does not pin
TimeoutMessages ==
  { Text_RequestTimedOut \o String(RequestTimeout) \o Text_ms,
    Text_apiGet \o Text_RequestTimedOut \o String(RequestTimeout) \o Text_ms,
    Text_Timeout \o String(RequestTimeout) \o Text_msExceeded,
    Text_apiGet \o Text_requestTimeout \o String(RequestTimeout) \o Text_msExceeded }

Text_ECONNREFUSED ==
  <<"c", "o", "n", "n", "e", "c", "t", " ", "E", "C", "O", "N", "N", "R", "E", "F",
    "U", "S", "E", "D">>

Text_ENOTFOUND ==
  <<"g", "e", "t", "a", "d", "d", "r", "i", "n", "f", "o", " ", "E", "N", "O", "T",
    "F", "O", "U", "N", "D">>

Text_ETIMEDOUT ==
  <<"c", "o", "n", "n", "e", "c", "t", " ", "E", "T", "I", "M", "E", "D", "O", "U",
    "T">>

Text_hangUp ==
  <<"s", "o", "c", "k", "e", "t", " ", "h", "a", "n", "g", " ", "u", "p">>

Text_idleTimeout ==
  <<"s", "o", "c", "k", "e", "t", " ", "i", "d", "l", "e", " ", "t", "i", "m", "e",
    "o", "u", "t">>

\* messages of a request that fails before the timeout elapses
NetworkMessages ==
  {Text_ECONNREFUSED, Text_ENOTFOUND, Text_ETIMEDOUT, Text_hangUp, Text_idleTimeout}

Statuses == {200, 201, 204, 301, 304, 400, 404, 408, 429, 500, 503, 504}

\* milliseconds until the server's answer (or the network's failure) arrives
Latencies == {0, RequestTimeout \div 2, RequestTimeout - 1, RequestTimeout,
              RequestTimeout + 1, 2 * RequestTimeout}

NoStatus == 0

NoMessage == <<>>

Replied(status) == [status |-> status, message |-> NoMessage]

Rejected(message) == [status |-> NoStatus, message |-> message]

\* outcomes of request.get(url, { timeout }) when the network needs `latency` ms:
\* at exactly the timeout either the answer or the timer wins
request_get(latency, timeout) ==
  (IF latency <= timeout
     THEN {Replied(s) : s \in Statuses} \cup {Rejected(m) : m \in NetworkMessages}
     ELSE {})
  \cup (IF latency >= timeout THEN {Rejected(m) : m \in TimeoutMessages} ELSE {})

\* expect(response.status()).toBe(200): the message thrown, none when it holds
expect_toBe(received, expected) ==
  IF received = expected THEN NoMessage ELSE toBe_message(received, expected)

\* mutant: the catch block swallows the error without asserting on it
expect_toContain_swallowed(message, sub) == TRUE

\* expect(error.message).toContain('timeout')
expect_toContain(message, sub) == Includes(message, sub)

NoApiTest == [pc |-> "idle", latency |-> 0, outcome |-> Replied(NoStatus),
              caught |-> NoMessage, status |-> "none"]

\* await request.get(`${BASE_URL}/posts/1`, { timeout: 100 }) inside try
RequestGet ==
  /\ api.pc = "idle"
  /\ \E latency \in Latencies :
       \E out \in request_get(latency, RequestTimeout) :
         api' = [api EXCEPT !.latency = latency, !.outcome = out,
                            !.pc = IF out.message = NoMessage THEN "try" ELSE "catch",
                            !.caught = out.message]
  /\ UNCHANGED <<dom, obj, last, request, response, net, workers, files, auth, axe, checkout, mock, ev, gql>>

\* expect(response.status()).toBe(200), still inside try
ExpectStatus ==
  /\ api.pc = "try"
  /\ LET thrown == expect_toBe(api.outcome.status, 200)
     IN  api' = IF thrown = NoMessage
                  THEN [api EXCEPT !.pc = "done", !.status = "passed"]
                  ELSE [api EXCEPT !.pc = "catch", !.caught = thrown]
  /\ UNCHANGED <<dom, obj, last, request, response, net, workers, files, auth, axe, checkout, mock, ev, gql>>

\* catch (error) { expect(error.message).toContain('timeout') }
CatchExpect ==
  /\ api.pc = "catch"
  /\ api' = [api EXCEPT !.pc = "done",
                        !.status = IF expect_toContain(api.caught, Text_timeout)
                                     THEN "passed" ELSE "failed"]
  /\ UNCHANGED <<dom, obj, last, request, response, net, workers, files, auth, axe, checkout, mock, ev, gql>>

(***************************************************************************)
(* axe-core-accessibility.spec.js: scans and what each test does with them  *)
(***************************************************************************)
MaxViolations == 2

Impacts == {"minor", "moderate", "serious", "critical"}

\* results.violations of one scan: the impact of each violation, in order
ViolationLists == UNION {[1..n -> Impacts] : n \in 0..MaxViolations}

\* how a test treats the result of a scan before its expect:
\*   plain    nothing
\*   report   console.log of the violations when there are any
\*   count    console.log of the count, then as report
\*   ci       console.error and throw when there are any
\*   critical console.error and throw when a critical or serious one is among them
AxeTest(kind, scans, gotoEach) == [kind |-> kind, scans |-> scans, gotoEach |-> gotoEach]

AxeTests ==
  [ bankingForm |-> AxeTest("report", 1, FALSE),
    exclusions |-> AxeTest("plain", 1, FALSE),
    levelA |-> AxeTest("count", 1, FALSE),
    levelAA |-> AxeTest("report", 1, FALSE),
    criticalCriteria |-> AxeTest("report", 1, FALSE),
    pageSection |-> AxeTest("plain", 1, FALSE),
    multiplePages |-> AxeTest("report", 3, TRUE),
    customOptions |-> AxeTest("plain", 1, FALSE),
    reportInDetail |-> AxeTest("report", 1, FALSE),
    cicdPattern |-> AxeTest("ci", 1, FALSE),
    bankingTransfer |-> AxeTest("report", 1, FALSE),
    excludeWidgets |-> AxeTest("plain", 1, FALSE),
    disableRules |-> AxeTest("plain", 1, FALSE),
    fullPageScan |-> AxeTest("count", 1, FALSE),
    completeCompliance |-> AxeTest("critical", 1, FALSE),
    individualRules |-> AxeTest("plain", 6, FALSE) ]

\* results.violations.filter(v => v.impact === 'critical' || v.impact === 'serious')
criticalViolations(violations) ==
  SelectSeq(violations, LAMBDA v : v = "critical" \/ v = "serious")

\* what the statements between analyze() and the expect write and whether they throw
Reported(kind, violations) ==
  LET n == Len(violations)
      some == n > 0
      counted == IF kind = "count" THEN << <<"log", "count", n>> >> ELSE <<>>
  IN  CASE kind \in {"report", "count"} ->
             [log |-> counted \o (IF some THEN << <<"log", "violations", n>> >> ELSE <<>>),
              thrown |-> FALSE]
        [] kind = "ci" ->
             [log |-> IF some THEN << <<"error", "violations", n>> >> ELSE <<>>,
              thrown |-> some]
        [] kind = "critical" ->
             LET c == Len(criticalViolations(violations))
             IN  [log |-> IF some /\ c > 0 THEN << <<"error", "violations", c>> >> ELSE <<>>,
                  thrown |-> some /\ c > 0]
        [] OTHER -> [log |-> <<>>, thrown |-> FALSE]

\* mutant: the expect is a soft check that never fails the test
toEqual_soft(received, expected) == TRUE

\* expect(received).toEqual(expected)
toEqual(received, expected) == received = expected

NoAxeTest == [test |-> "none", pc |-> "idle", results |-> <<>>, log |-> <<>>,
              status |-> "none"]

AxeFailed(a) == [a EXCEPT !.pc = "done", !.status = "failed"]

\* the runner starts one of the tests of the file
BeginAxeTest ==
  /\ axe.pc = "idle"
  /\ \E t \in DOMAIN AxeTests :
       axe' = [axe EXCEPT !.test = t, !.pc = "goto"]
  /\ UNCHANGED <<dom, obj, last, request, response, net, workers, files, auth, api, checkout, mock, ev, gql>>

\* await page.goto(...): the page loads or the navigation rejects
AxeGoto ==
  /\ axe.pc = "goto"
  /\ \E loaded \in BOOLEAN :
       axe' = IF loaded THEN [axe EXCEPT !.pc = "analyze"] ELSE AxeFailed(axe)
  /\ UNCHANGED <<dom, obj, last, request, response, net, workers, files, auth, api, checkout, mock, ev, gql>>

\* const results = await new AxeBuilder({ page })....analyze()
Analyze ==
  /\ axe.pc = "analyze"
  /\ \E violations \in ViolationLists :
       axe' = [axe EXCEPT !.results = Append(@, violations), !.pc = "report"]
  /\ UNCHANGED <<dom, obj, last, request, response, net, workers, files, auth, api, checkout, mock, ev, gql>>

\* if (results.violations.length > 0) { console.log / console.error / throw }
Report ==
  /\ axe.pc = "report"
  /\ LET r == Reported(AxeTests[axe.test].kind, axe.results[Len(axe.results)])
         logged == [axe EXCEPT !.log = @ \o r.log]
     IN  axe' = IF r.thrown THEN AxeFailed(logged) ELSE [logged EXCEPT !.pc = "expect"]
  /\ UNCHANGED <<dom, obj, last, request, response, net, workers, files, auth, api, checkout, mock, ev, gql>>

\* expect(results.violations).toEqual([]), then the next scan or the rest of the test
ExpectNoViolations ==
  /\ axe.pc = "expect"
  /\ LET t == AxeTests[axe.test]
     IN  axe' = IF ~toEqual(axe.results[Len(axe.results)], <<>>) THEN AxeFailed(axe)
                ELSE IF Len(axe.results) < t.scans
                  THEN [axe EXCEPT !.pc = IF t.gotoEach THEN "goto" ELSE "analyze"]
                ELSE [axe EXCEPT !.pc = "placeholder"]
  /\ UNCHANGED <<dom, obj, last, request, response, net, workers, files, auth, api, checkout, mock, ev, gql>>

\* await page.goto(...); console.log(...); expect(page).toBeTruthy()
Placeholder ==
  /\ axe.pc = "placeholder"
  /\ \E loaded \in BOOLEAN :
       axe' = IF loaded THEN [axe EXCEPT !.pc = "done", !.status = "passed"]
              ELSE AxeFailed(axe)
  /\ UNCHANGED <<dom, obj, last, request, response, net, workers, files, auth, api, checkout, mock, ev, gql>>

(***************************************************************************)
(* DIP-Playwright.js: notification services and CheckoutTest                 *)
(* A run is the error it ended with and the trace of what it did, in order: *)
(* <<"goto", url>>, <<"click", selector>>, <<"send", class, message>>,       *)
(* <<"post", url, message>>, <<"log", text, message>>.                       *)
(***************************************************************************)
PurchaseMessage == "Purchase completed successfully!"

Began == [err |-> NoErr, trace |-> <<>>]

Did(r, entry) == IF r.err # NoErr THEN r ELSE [r EXCEPT !.trace = Append(@, entry)]

\* the page, the checkout URL and the notify endpoint as the run finds them
CheckoutWorlds == [loads : BOOLEAN, button : ElemStates, notify : BOOLEAN]

NotificationService == [class |-> "NotificationService"]

NotificationService_send(this, r, message, world) ==
  Throw(Did(r, <<"send", this.class, message>>), "Notification service not implemented")

ConsoleNotificationService == [class |-> "ConsoleNotificationService"]

ConsoleNotificationService_send(this, r, message, world) ==
  Did(Did(r, <<"send", this.class, message>>), <<"log", "NOTIFICATION: ", message>>)

ApiNotificationService(request_) == [class |-> "ApiNotificationService", request |-> request_]

\* await this.request.post('/api/notify', { data: { message } }); console.log(...)
ApiNotificationService_send(this, r, message, world) ==
  LET posted == Did(Did(r, <<"send", this.class, message>>), <<"post", "/api/notify", message>>)
  IN  IF world.notify
      THEN Did(posted, <<"log", "API notification sent.", "">>)
      ELSE Throw(posted, "apiRequestContext.post failed")

NotificationServices ==
  {NotificationService, ConsoleNotificationService, ApiNotificationService("request")}

\* notificationService.send(message): the method of the object's own class
send(service, r, message, world) ==
  CASE service.class = "ConsoleNotificationService" ->
         ConsoleNotificationService_send(service, r, message, world)
    [] service.class = "ApiNotificationService" ->
         ApiNotificationService_send(service, r, message, world)
    [] OTHER -> NotificationService_send(service, r, message, world)

CheckoutTest(notificationService) ==
  [class |-> "CheckoutTest", notificationService |-> notificationService]

\* await page.goto('/checkout')
checkout_goto(r, world) ==
  IF world.loads THEN Did(r, <<"goto", "/checkout">>) ELSE Throw(r, "page.goto failed")

\* await page.click('#confirm-purchase'): waits for the first match to be actionable
checkout_click(r, world) ==
  IF world.button.n > 0 /\ world.button.vis
  THEN Did(r, <<"click", "#confirm-purchase">>)
  ELSE Throw(r, "TimeoutError")

\* mutant: the notification is sent before the purchase is confirmed
CheckoutTest_run_notifyFirst(this, r, world) ==
  checkout_click(send(this.notificationService, checkout_goto(r, world),
                      PurchaseMessage, world), world)

CheckoutTest_run(this, r, world) ==
  send(this.notificationService, checkout_click(checkout_goto(r, world), world),
       PurchaseMessage, world)

NoCheckoutRun == [op |-> "idle", err |-> NoErr, trace |-> <<>>]

NoCheckout == [test |-> [class |-> "none"],
               world |-> [loads |-> FALSE, button |-> Absent, notify |-> FALSE],
               last |-> NoCheckoutRun]

\* new CheckoutTest(new ...NotificationService(...))
NewCheckoutTest ==
  \E service \in NotificationServices :
    /\ checkout.test # CheckoutTest(service)
    /\ checkout' = [checkout EXCEPT !.test = CheckoutTest(service), !.last = NoCheckoutRun]
    /\ UNCHANGED <<dom, obj, last, request, response, net, workers, files, auth, api, axe, mock, ev, gql>>

\* the application under test and the notify endpoint come up or go down
CheckoutWorldChanges ==
  \E world \in CheckoutWorlds :
    /\ \/ world = [checkout.world EXCEPT !.loads = ~@]
       \/ world = [checkout.world EXCEPT !.notify = ~@]
       \/ \E e \in ElemStates : e # checkout.world.button
                                /\ world = [checkout.world EXCEPT !.button = e]
    /\ checkout' = [checkout EXCEPT !.world = world, !.last = NoCheckoutRun]
    /\ UNCHANGED <<dom, obj, last, request, response, net, workers, files, auth, api, axe, mock, ev, gql>>

\* await checkoutTest.run(page)
CheckoutTestRun ==
  /\ checkout.test.class = "CheckoutTest"
  /\ checkout.last.op = "idle"
  /\ LET r == CheckoutTest_run(checkout.test, Began, checkout.world)
     IN  checkout' = [checkout EXCEPT !.last = [op |-> "CheckoutTest.run", err |-> r.err,
                                                trace |-> r.trace]]
  /\ UNCHANGED <<dom, obj, last, request, response, net, workers, files, auth, api, axe, mock, ev, gql>>

(***************************************************************************)
(* The mocked login routes and the bodies a request can bring them          *)
(***************************************************************************)
LoginRoutes == {"login", "mockLogin"}

LoginField(name, values) == {<<>>} \cup {<< <<name, v>> >> : v \in values}

\* JSON objects with or without either credential, in either order, with or without
\* a further property
LoginObjects ==
  {a \o b \o x : a \in LoginField("username", {"admin", "abhinav", "guest"}),
                 b \in LoginField("password", {"admin123", "123", ""}),
                 x \in LoginField("remember", {"true", "false"})}
  \cup {b \o a : a \in LoginField("username", {"admin", "abhinav", "guest"}),
                 b \in LoginField("password", {"admin123", "123", ""})}

LoginBodies ==
  {JSON_stringify(o) : o \in LoginObjects} \cup {NullText, ArrayText, FormText, EmptyText}

LoginRequests ==
  {[url |-> example_com(<<"api", "login">>), method |-> "POST", headers |-> ContentTypeJson,
    hasBody |-> TRUE, payload |-> <<>>, postData |-> t] : t \in LoginBodies}
  \cup {[url |-> example_com(<<"api", "login">>), method |-> "POST", headers |-> NoHeaders,
         hasBody |-> FALSE, payload |-> <<>>, postData |-> EmptyObjectText]}

NoLoginCall == [route |-> "none", req |-> PageGet(example_com(<<"api", "login">>)),
                out |-> Threw(NoErr)]

\* the page sends a request that meets one of the two login routes
LoginRequested ==
  \E h \in LoginRoutes, req \in LoginRequests :
    /\ mock' = [route |-> h, req |-> req,
                out |-> IF h = "login" THEN route_login(req) ELSE route_mockLogin(req)]
    /\ UNCHANGED <<dom, obj, last, request, response, net, workers, files, auth, api, axe, checkout, ev, gql>>

\* the test ends and the next one starts on a fresh page
LoginReset ==
  /\ mock.route # "none"
  /\ mock' = NoLoginCall
  /\ UNCHANGED <<dom, obj, last, request, response, net, workers, files, auth, api, axe, checkout, ev, gql>>

(***************************************************************************)
(* Event delivery                                                           *)
(*                                                                          *)
(* A scenario is the sequence of its statements: a listener registration    *)
(* (synchronous), an awaited call or an awaited Promise.all of calls, which *)
(* are issued in the order they are written, and the expects on the flags   *)
(* the handlers set.  The browser answers over one ordered connection:      *)
(* `chan` holds the events and responses it has produced and the script has *)
(* not yet received.  Only the events that some scenario listens to are     *)
(* followed, and a route that matches a page request is taken to answer it. *)
(***************************************************************************)
\* the elements of a sequence
Range(seq) == {seq[i] : i \in 1..Len(seq)}

\* const EXAMPLE_URL = 'https://example.com';
EXAMPLE_URL ==
  <<"h", "t", "t", "p", "s", ":", "/", "/", "e", "x", "a", "m", "p", "l", "e", ".",
    "c", "o", "m">>

\* fetch('http://example.com/api/login', ...) of the mock login page
Text_loginUrl ==
  <<"h", "t", "t", "p", ":", "/", "/", "e", "x", "a", "m", "p", "l", "e", ".",
    "c", "o", "m", "/", "a", "p", "i", "/", "l", "o", "g", "i", "n">>

Text_example == <<"e", "x", "a", "m", "p", "l", "e">>

EventTests == {"interceptGet", "mockLogin", "notifyApi", "contextEvents", "dialog",
               "newTab", "newTabPages"}

\* context.on(event, handler), page.on(event, handler), page.once(event, handler)
On(event) == [kind |-> "on", event |-> event, ops |-> <<>>, flags |-> {}]

\* await call, or await Promise.all([call, call]) with the calls in array order
Calls(ops) == [kind |-> "calls", event |-> "", ops |-> ops, flags |-> {}]

\* expect(events.flag).toBeTruthy() for each of the flags
Expects(flags) == [kind |-> "expect", event |-> "", ops |-> <<>>, flags |-> flags]

EventScript(t) ==
  CASE t = "interceptGet" ->
         <<Calls(<<"page.route">>), Calls(<<"page.setContent">>),
           Calls(<<"page.waitForTimeout">>), Calls(<<"expect.toHaveText">>)>>
    [] t = "mockLogin" ->
         <<Calls(<<"page.route">>), Calls(<<"page.setContent">>), On("request"),
           On("response"), Calls(<<"page.fill#username">>),
           Calls(<<"page.fill#password">>), Calls(<<"page.click#loginBtn">>),
           Calls(<<"expect.toHaveText">>)>>
    [] t = "notifyApi" ->
         <<Calls(<<"page.route">>), Calls(<<"page.goto">>),
           Calls(<<"page.click#confirm-purchase">>), Calls(<<"request.post">>),
           Calls(<<"expect.toBeVisible">>)>>
    [] t = "contextEvents" ->
         <<Calls(<<"browser.newContext">>), On("page"), On("request"), On("weberror"),
           Calls(<<"context.newPage">>), Calls(<<"page.goto">>),
           Calls(<<"page.evaluate#log">>), Calls(<<"page.evaluate#setTimeout">>),
           Calls(<<"page.waitForTimeout">>),
           Expects({"page", "request", "console", "weberror"}),
           Calls(<<"context.close">>)>>
    [] t = "dialog" ->
         <<Calls(<<"page.goto">>), On("dialog"), Calls(<<"page.click#jsAlert">>)>>
    [] t = "newTab" ->
         <<Calls(<<"page.goto">>), Calls(<<"page.waitForEvent", "page.click#new">>),
           Calls(<<"newPage.waitForLoadState">>), Calls(<<"newPage.title">>),
           Calls(<<"newPage.close">>)>>
    [] t = "newTabPages" ->
         <<Calls(<<"page.goto">>), Calls(<<"page.waitForEvent", "page.click#new">>),
           Calls(<<"newPage.waitForLoadState">>), Calls(<<"newPage.title">>)>>
    [] OTHER -> <<>>

\* the glob of the scenario's page.route
RouteGlob(t) ==
  CASE t = "interceptGet" -> <<"**", "api", "users", "**">>
    [] t = "mockLogin" -> <<"**", "api", "login">>
    [] OTHER -> <<"", "api", "notify">>

\* the requests the page (or the APIRequestContext) sends when the browser runs op
RequestsOf(t, op) ==
  CASE t = "interceptGet" /\ op = "page.setContent" ->
         <<[url |-> jsonplaceholder(<<"users", "1">>), via |-> "page"]>>
    [] t = "mockLogin" /\ op = "page.click#loginBtn" ->
         <<[url |-> <<"http:", "", "example.com", "api", "login">>, via |-> "page"]>>
    [] t = "notifyApi" /\ op = "request.post" ->
         <<[url |-> <<"", "api", "notify">>, via |-> "api"]>>
    [] OTHER -> <<>>

Event(name, text) == [name |-> name, op |-> "", ok |-> TRUE, text |-> text]

Response(op, ok) == [name |-> "response", op |-> op, ok |-> ok, text |-> <<>>]

\* the events the browser emits while it runs op, before it answers the call
EventsOf(t, op) ==
  CASE t = "contextEvents" /\ op = "context.newPage" -> <<Event("page", <<>>)>>
    [] t = "contextEvents" /\ op = "page.goto" -> <<Event("request", EXAMPLE_URL)>>
    [] t = "contextEvents" /\ op = "page.evaluate#log" -> <<Event("console", <<>>)>>
    [] t = "mockLogin" /\ op = "page.click#loginBtn" ->
         <<Event("request", Text_loginUrl), Event("response", Text_loginUrl)>>
    [] op = "page.click#jsAlert" -> <<Event("dialog", <<>>)>>
    [] op = "page.click#new" -> <<Event("popup", <<>>)>>
    [] OTHER -> <<>>

\* page.waitForEvent('popup') is armed when it is called and sends nothing
Arms_never(op) == {}

Arms(op) == IF op = "page.waitForEvent" THEN {"popup"} ELSE {}

NoEvents ==
  [test |-> "none", status |-> "idle", pc |-> 1, started |-> FALSE,
   listeners |-> {}, inflight |-> {}, settled |-> {}, log |-> <<>>,
   chan |-> <<>>, routes |-> {}, sent |-> <<>>, facts |-> {}, timer |-> FALSE,
   dialog |-> "none", flags |-> {}, missed |-> {}, checked |-> FALSE, seen |-> {}]

EventRunning == ev.status = "running"

Statement(e) ==
  IF e.pc <= Len(EventScript(e.test)) THEN EventScript(e.test)[e.pc] ELSE On("")

\* the calls of the current statement that have not been answered
Pending_routeUnawaited(e) ==
  (Range(Statement(e).ops) \ e.settled) \ {"page.route"}

Pending(e) == Range(Statement(e).ops) \ e.settled

RECURSIVE IssueAll(_, _)
\* the calls of one statement, each issued after the one written before it
IssueAll(e, ops) ==
  IF ops = <<>> THEN e
  ELSE LET op == Head(ops)
           noted == [e EXCEPT !.log = Append(@, [op |-> op, armed |-> e.listeners,
                                                  settled |-> e.settled])]
       IN  IssueAll(IF Arms(op) # {}
                    THEN [noted EXCEPT !.listeners = @ \cup Arms(op)]
                    ELSE [noted EXCEPT !.inflight = @ \cup {op}],
                    Tail(ops))

RECURSIVE SendAll(_, _)
\* each request meets the routes registered when it is sent
SendAll(e, reqs) ==
  IF reqs = <<>> THEN e
  ELSE LET r == Head(reqs)
           exists == \E g \in e.routes : urlMatches(r.url, g)
       IN  SendAll([e EXCEPT !.sent = Append(@, [url |-> r.url, via |-> r.via,
                                                 exists |-> exists]),
                             !.facts = IF exists /\ r.via = "page"
                                       THEN @ \cup {"mocked"} ELSE @],
                   Tail(reqs))

\* what the browser does when it runs op, up to its answer
Ran(e, op) ==
  LET sent == SendAll(e, RequestsOf(e.test, op))
      done == [sent EXCEPT !.inflight = @ \ {op},
                           !.chan = @ \o EventsOf(e.test, op) \o <<Response(op, TRUE)>>]
  IN  CASE op = "page.route" -> [done EXCEPT !.routes = @ \cup {RouteGlob(e.test)}]
        [] op = "page.evaluate#setTimeout" -> [done EXCEPT !.timer = TRUE]
        [] op \in {"dialog.accept", "dialog.dismiss"} -> [done EXCEPT !.dialog = "closed"]
        [] OTHER -> done

\* the handler of a delivered event, or what happens to it without a listener
Handled_event(e, m) ==
  IF m.name \notin e.listeners
  THEN [e EXCEPT !.missed = @ \cup {m.name},
                 !.inflight = IF m.name = "dialog" THEN @ \cup {"dialog.dismiss"} ELSE @]
  ELSE CASE m.name = "page" ->
              [e EXCEPT !.flags = @ \cup {"page"}, !.listeners = @ \cup {"console"}]
         [] m.name = "request" /\ e.test = "contextEvents" ->
              IF Includes(m.text, Text_example)
              THEN [e EXCEPT !.flags = @ \cup {"request"}] ELSE e
         [] m.name = "console" -> [e EXCEPT !.flags = @ \cup {"console"}]
         [] m.name = "weberror" -> [e EXCEPT !.flags = @ \cup {"weberror"}]
         [] m.name = "dialog" ->
              [e EXCEPT !.listeners = @ \ {"dialog"}, !.inflight = @ \cup {"dialog.accept"}]
         [] m.name = "popup" ->
              [e EXCEPT !.listeners = @ \ {"popup"},
                        !.settled = @ \cup {"page.waitForEvent"}]
         [] OTHER -> e

BeginEventTest ==
  /\ ev.status # "running"
  /\ \E t \in EventTests : ev' = [NoEvents EXCEPT !.test = t, !.status = "running"]
  /\ UNCHANGED <<dom, obj, last, request, response, net, workers, files, auth, api, axe, checkout, mock, gql>>

Register ==
  /\ EventRunning
  /\ Statement(ev).kind = "on" /\ ev.pc <= Len(EventScript(ev.test))
  /\ ev' = [ev EXCEPT !.listeners = @ \cup {Statement(ev).event}, !.pc = @ + 1]
  /\ UNCHANGED <<dom, obj, last, request, response, net, workers, files, auth, api, axe, checkout, mock, gql>>

Issue ==
  /\ EventRunning
  /\ Statement(ev).kind = "calls" /\ ~ev.started
  /\ ev' = [IssueAll(ev, Statement(ev).ops) EXCEPT !.started = TRUE]
  /\ UNCHANGED <<dom, obj, last, request, response, net, workers, files, auth, api, axe, checkout, mock, gql>>

\* the browser runs a call it has received; the click on the alert button
\* raises the dialog and is answered once the dialog is closed
BrowserRuns ==
  /\ EventRunning
  /\ \E op \in ev.inflight :
       IF op = "page.click#jsAlert" /\ ev.dialog = "none"
       THEN ev' = [ev EXCEPT !.dialog = "open", !.chan = @ \o EventsOf(ev.test, op)]
       ELSE /\ op = "page.click#jsAlert" => ev.dialog = "closed"
            /\ op = "expect.toHaveText" => "mocked" \in ev.facts
            /\ ev' = [Ran(ev, op) EXCEPT
                        !.chan = IF op = "page.click#jsAlert"
                                 THEN ev.chan \o <<Response(op, TRUE)>> ELSE @]
  /\ UNCHANGED <<dom, obj, last, request, response, net, workers, files, auth, api, axe, checkout, mock, gql>>

\* the call fails or times out in the browser
BrowserFails ==
  /\ EventRunning
  /\ \E op \in ev.inflight \cap Range(Statement(ev).ops) :
       ev' = [ev EXCEPT !.inflight = @ \ {op}, !.chan = Append(@, Response(op, FALSE))]
  /\ UNCHANGED <<dom, obj, last, request, response, net, workers, files, auth, api, axe, checkout, mock, gql>>

\* setTimeout(() => { throw new Error('Context-level error'); }, 0) runs in the page
TimerFires ==
  /\ EventRunning
  /\ ev.timer
  /\ ev' = [ev EXCEPT !.timer = FALSE, !.chan = Append(@, Event("weberror", <<>>))]
  /\ UNCHANGED <<dom, obj, last, request, response, net, workers, files, auth, api, axe, checkout, mock, gql>>

\* the script receives the oldest message of the connection
Deliver ==
  /\ EventRunning
  /\ ev.chan # <<>>
  /\ LET m == Head(ev.chan)
         rest == [ev EXCEPT !.chan = Tail(@)]
     IN  ev' = IF m.name # "response" THEN Handled_event(rest, m)
               ELSE IF m.ok THEN [rest EXCEPT !.settled = @ \cup {m.op}]
               ELSE [rest EXCEPT !.status = "failed"]
  /\ UNCHANGED <<dom, obj, last, request, response, net, workers, files, auth, api, axe, checkout, mock, gql>>

Advance ==
  /\ EventRunning
  /\ Statement(ev).kind = "calls" /\ ev.started
  /\ Pending(ev) = {}
  /\ ev' = [ev EXCEPT !.pc = @ + 1, !.started = FALSE]
  /\ UNCHANGED <<dom, obj, last, request, response, net, workers, files, auth, api, axe, checkout, mock, gql>>

ExpectFlags ==
  /\ EventRunning
  /\ Statement(ev).kind = "expect"
  /\ ev' = [ev EXCEPT !.checked = TRUE, !.seen = ev.flags,
                      !.pc = IF Statement(ev).flags \subseteq ev.flags THEN @ + 1 ELSE @,
                      !.status = IF Statement(ev).flags \subseteq ev.flags
                                 THEN @ ELSE "failed"]
  /\ UNCHANGED <<dom, obj, last, request, response, net, workers, files, auth, api, axe, checkout, mock, gql>>

EndEventTest ==
  /\ EventRunning
  /\ ev.pc > Len(EventScript(ev.test))
  /\ ev' = [ev EXCEPT !.status = "passed"]
  /\ UNCHANGED <<dom, obj, last, request, response, net, workers, files, auth, api, axe, checkout, mock, gql>>

(***************************************************************************)
(* GraphQL query over GET                                                   *)
(*                                                                          *)
(* The endpoint is what the run finds: reachable or not, with the status    *)
(* and the body it answers.  The scenario is followed statement by          *)
(* statement through its try block and its catch clause.                    *)
(***************************************************************************)
GraphqlStatuses == {200, 400, 404, 405, 500}

CountriesData == [json |-> << <<"data", "{countries}">> >>]

NullData == [json |-> << <<"data", "null">> >>]

ErrorsOnly == [json |-> << <<"errors", "[GET not supported]">> >>]

DataAndErrors == [json |-> << <<"data", "{countries}">>, <<"errors", "[partial]">> >>]

GraphqlBodies ==
  {CountriesData, NullData, ErrorsOnly, DataAndErrors, EmptyObjectText, NullText,
   ArrayText, NotJson}

GraphqlWorlds == [reachable : BOOLEAN, status : GraphqlStatuses, body : GraphqlBodies]

\* const result = await response.json(); result.data
result_data(body) ==
  IF ~Parses(body) THEN [err |-> "SyntaxError", data |-> Undefined]
  ELSE IF body = NullText THEN [err |-> "TypeError", data |-> Undefined]
  ELSE IF ~IsJson(body) THEN [err |-> NoErr, data |-> Undefined]
  ELSE [err |-> NoErr,
        data |-> IF ObjHas(JSON_parse(body), "data")
                 THEN ObjGet(JSON_parse(body), "data") ELSE Undefined]

\* expect(value).toBeDefined()
expect_toBeDefined(value) == IF value = Undefined THEN "expect.toBeDefined" ELSE NoErr

NoGraphqlTest ==
  [pc |-> "idle", status |-> "idle",
   world |-> [reachable |-> FALSE, status |-> 200, body |-> NotJson],
   caught |-> NoErr, log |-> <<>>]

BeginGraphqlGet ==
  /\ gql.pc \in {"idle", "done"}
  /\ \E world \in GraphqlWorlds :
       gql' = [NoGraphqlTest EXCEPT !.pc = "get", !.status = "running", !.world = world]
  /\ UNCHANGED <<dom, obj, last, request, response, net, workers, files, auth, api, axe, checkout, mock, ev>>

\* const response = await request.get(`${GRAPHQL_URL}?query=${encodedQuery}`);
GraphqlGet ==
  /\ gql.pc = "get"
  /\ gql' = IF gql.world.reachable THEN [gql EXCEPT !.pc = "status"]
            ELSE [gql EXCEPT !.pc = "catch", !.caught = "RequestError"]
  /\ UNCHANGED <<dom, obj, last, request, response, net, workers, files, auth, api, axe, checkout, mock, ev>>

\* if (response.status() === 200) {
GraphqlStatus ==
  /\ gql.pc = "status"
  /\ gql' = [gql EXCEPT !.pc = IF gql.world.status = 200 THEN "json" ELSE "end"]
  /\ UNCHANGED <<dom, obj, last, request, response, net, workers, files, auth, api, axe, checkout, mock, ev>>

\* const result = await response.json(); expect(result.data).toBeDefined();
GraphqlExpect ==
  /\ gql.pc = "json"
  /\ LET r == result_data(gql.world.body)
         thrown == IF r.err # NoErr THEN r.err ELSE expect_toBeDefined(r.data)
     IN  gql' = IF thrown = NoErr THEN [gql EXCEPT !.pc = "end"]
                ELSE [gql EXCEPT !.pc = "catch", !.caught = thrown]
  /\ UNCHANGED <<dom, obj, last, request, response, net, workers, files, auth, api, axe, checkout, mock, ev>>

\* catch (error) { console.log('GET method not supported, using POST is standard'); }
GraphqlCatch ==
  /\ gql.pc = "catch"
  /\ gql' = [gql EXCEPT !.pc = "end",
                        !.log = Append(@, "GET method not supported, using POST is standard")]
  /\ UNCHANGED <<dom, obj, last, request, response, net, workers, files, auth, api, axe, checkout, mock, ev>>

\* the test function returns without a pending error
GraphqlEnd ==
  /\ gql.pc = "end"
  /\ gql' = [gql EXCEPT !.pc = "done", !.status = "passed"]
  /\ UNCHANGED <<dom, obj, last, request, response, net, workers, files, auth, api, axe, checkout, mock, ev>>

(***************************************************************************)
(* Specifications                                                           *)
(***************************************************************************)
Init ==
  /\ dom = Blank
  /\ obj = NoObject
  /\ last = Idle
  /\ request = NoRequest
  /\ response = NoResponse
  /\ net = NoScenario
  /\ workers = [w \in Workers |-> Idling]
  /\ files = [p \in Paths |-> {}]
  /\ auth = NoAuth
  /\ api = NoApiTest
  /\ axe = NoAxeTest
  /\ checkout = NoCheckout
  /\ mock = NoLoginCall
  /\ ev = NoEvents
  /\ gql = NoGraphqlTest

Next ==
  \/ DomChange \/ page_goto \/ Continue
  \/ NewHeaderComponent \/ NewFooterComponent
  \/ NewProductPage \/ NewDashboardPage \/ NewLoginPage
  \/ clickLogo \/ search \/ openUserMenu \/ logout \/ navigateTo \/ headerIsVisible
  \/ clickLink \/ getCopyrightText \/ clickSocialLink \/ footerIsVisible \/ getAllLinks
  \/ basePageOp
  \/ addToCart \/ addToCartWithOptions \/ productText \/ searchProduct
  \/ scrollToReviews \/ productIsLoaded
  \/ navigateToTransactions \/ getWelcomeMessage \/ dashboardLogout \/ goHome
  \/ getStatsCount \/ dashboardIsLoaded
  \/ login \/ clickForgotPassword \/ getErrorMessage \/ hasErrorMessage \/ isFormVisible

Spec == Init /\ [][Next]_vars

NextMock == fetchPosts \/ fetchUsers1

SpecMock == Init /\ [][NextMock]_vars

NextNet ==
  \/ StartScenario \/ page_route \/ page_unroute \/ page_setContent
  \/ request_post \/ expect \/ EndScenario

SpecNet == Init /\ [][NextNet]_vars

NextRun ==
  \E w \in Workers :
    \/ BeginTest(w) \/ StartStatement(w) \/ TriggerCallback(w) \/ SettleOp(w)
    \/ NextStatement(w) \/ RejectOp(w) \/ EndTest(w)

SpecRun == Init /\ [][NextRun]_vars

NextAuth == NewLoginTest \/ AuthPageLoads \/ LoginTestRun

SpecAuth == Init /\ [][NextAuth]_vars

NextTimeout == RequestGet \/ ExpectStatus \/ CatchExpect

SpecTimeout == Init /\ [][NextTimeout]_vars

NextAxe ==
  BeginAxeTest \/ AxeGoto \/ Analyze \/ Report \/ ExpectNoViolations \/ Placeholder

SpecAxe == Init /\ [][NextAxe]_vars

NextCheckout == NewCheckoutTest \/ CheckoutWorldChanges \/ CheckoutTestRun

SpecCheckout == Init /\ [][NextCheckout]_vars

NextLogin == LoginRequested \/ LoginReset

SpecLogin == Init /\ [][NextLogin]_vars

NextEvents ==
  \/ BeginEventTest \/ Register \/ Issue \/ BrowserRuns \/ BrowserFails
  \/ TimerFires \/ Deliver \/ Advance \/ ExpectFlags \/ EndEventTest

SpecEvents == Init /\ [][NextEvents]_vars

NextGraphql ==
  \/ BeginGraphqlGet \/ GraphqlGet \/ GraphqlStatus \/ GraphqlExpect
  \/ GraphqlCatch \/ GraphqlEnd

SpecGraphql == Init /\ [][NextGraphql]_vars

(***************************************************************************)
(* Claims                                                                   *)
(***************************************************************************)
HeaderOps == {"HeaderComponent.clickLogo", "HeaderComponent.search",
              "HeaderComponent.openUserMenu", "HeaderComponent.logout",
              "HeaderComponent.navigateTo", "HeaderComponent.isVisible"}

FooterOps == {"FooterComponent.clickLink", "FooterComponent.getCopyrightText",
              "FooterComponent.clickSocialLink", "FooterComponent.isVisible",
              "FooterComponent.getAllLinks"}

ComponentOps == HeaderOps \cup FooterOps

\* the element a component method is there to act on or read
Target(l) ==
  CASE l.op = "HeaderComponent.clickLogo" -> Loc("logo")
    [] l.op = "HeaderComponent.search" -> Loc("searchInput")
    [] l.op = "HeaderComponent.openUserMenu" -> Loc("userMenu")
    [] l.op = "HeaderComponent.logout" -> Loc("logoutBtn")
    [] l.op = "HeaderComponent.navigateTo" -> Filter(Loc("navigationLinks"), l.args[1])
    [] l.op = "HeaderComponent.isVisible" -> Loc("logo")
    [] l.op = "FooterComponent.clickLink" -> Filter(Loc("footerLinks"), l.args[1])
    [] l.op = "FooterComponent.getCopyrightText" -> Loc("copyrightText")
    [] l.op = "FooterComponent.clickSocialLink" -> Filter(Loc("socialLinks"), l.args[1])
    [] l.op = "FooterComponent.isVisible" -> Loc("footer")
    [] l.op = "FooterComponent.getAllLinks" -> Loc("footerLinks")

TargetAbsent(l) == Resolve(l.pre, Target(l)).n = 0

\* every element the method may act on: logout also clicks the user menu
AllTargetsAbsent(l) ==
  /\ TargetAbsent(l)
  /\ l.op = "HeaderComponent.logout" => l.pre["userMenu"].n = 0

\* C1: every public method of HeaderComponent and FooterComponent, called while its
\* target element is absent, completes without raising an error.
C1_AbsentNeverRaises ==
  (last.op \in ComponentOps /\ TargetAbsent(last)) => last.err = NoErr

\* C2 as stated: a call made while the method's target element is absent issues no
\* click, fill or key press, and the page after the call equals the page before it.
C2_AbsentTargetNoAction ==
  (last.op \in ComponentOps /\ TargetAbsent(last)) => (last.events = <<>> /\ dom = last.pre)

\* C2 amended: a call made while every element the method acts on is absent (for
\* logout the user menu as well as the logout button) issues no action and leaves the
\* page as it was.
C2_AllAbsentNoAction ==
  (last.op \in ComponentOps /\ AllTargetsAbsent(last))
    => (last.events = <<>> /\ dom = last.pre)

C2_Witness ==
  /\ last.op = "HeaderComponent.logout"
  /\ AllTargetsAbsent(last)
  /\ last.pre["logo"].n = 1
  /\ last.events = <<>>
  /\ last.err = NoErr

BasePageClasses == {"DashboardPage", "ProductPage"}

\* C3: a page object extending BasePage (DashboardPage, ProductPage) holds one
\* HeaderComponent in header and one FooterComponent in footer from construction on.
C3_HeaderFooterAfterConstruction ==
  obj.class \in BasePageClasses =>
    /\ "header" \in DOMAIN obj /\ obj.header.class = "HeaderComponent"
    /\ "footer" \in DOMAIN obj /\ obj.footer.class = "FooterComponent"

C3_Witness ==
  /\ last.op = "new"
  /\ obj.class = "ProductPage"
  /\ obj.header.class = "HeaderComponent"
  /\ obj.footer.class = "FooterComponent"

HasBasePage(o) ==
  /\ Extends(o.class) = "BasePage"
  /\ "header" \in DOMAIN o
  /\ "footer" \in DOMAIN o

\* C4: each of LoginPage, DashboardPage and ProductPage extends BasePage, so every
\* instance exposes the inherited header and footer and the BasePage operations.
C4_ConcretePagesExtendBasePage ==
  obj.class \in {"LoginPage", "DashboardPage", "ProductPage"} => HasBasePage(obj)

VisibilityOps == {"HeaderComponent.isVisible", "FooterComponent.isVisible",
                  "ProductPage.isLoaded", "DashboardPage.isLoaded",
                  "LoginPage.hasErrorMessage", "LoginPage.isFormVisible"}

VisibilityTarget(l) ==
  CASE l.op = "HeaderComponent.isVisible" -> "logo"
    [] l.op = "FooterComponent.isVisible" -> "footer"
    [] l.op = "ProductPage.isLoaded" -> "productTitle"
    [] l.op = "DashboardPage.isLoaded" -> "welcomeMessage"
    [] l.op = "LoginPage.hasErrorMessage" -> "errorMessage"
    [] l.op = "LoginPage.isFormVisible" -> "emailInput"

\* C5: every visibility check returns a boolean and raises nothing; when the
\* visibility query fails (strict mode: several matches) the result is false.
C5_VisibilityIsBoolean ==
  last.op \in VisibilityOps =>
    /\ last.err = NoErr
    /\ last.ret \in BOOLEAN
    /\ last.pre[VisibilityTarget(last)].n > 1 => last.ret = FALSE
    /\ last.pre[VisibilityTarget(last)].n = 1 => last.ret = last.pre[VisibilityTarget(last)].vis

C5_Witness ==
  /\ last.op = "LoginPage.hasErrorMessage"
  /\ last.pre["errorMessage"].n > 1
  /\ last.err = NoErr
  /\ last.ret = FALSE

InputKinds == {"click", "fill", "press"}

InputEvents(l) == {i \in 1..Len(l.events) : l.events[i][1] \in InputKinds}

IsLocator(v) == DOMAIN v = {"sel", "hasText", "within"} /\ v.sel \in Selectors

\* the fields of an object that are neither its class, its page nor a component
LocatorFields(o) == DOMAIN o \ {"class", "page", "header", "footer"}

\* C7: constructing a page or component object issues no query and no action and
\* leaves the page alone; its fields are unresolved locators, and a later call is
\* answered from the page as it is at the call.
C7_LazyResolution ==
  /\ last.op = "new" => (last.queries = 0 /\ last.events = <<>> /\ dom = last.pre)
  /\ \A f \in LocatorFields(obj) : IsLocator(obj[f])
  /\ last.op = "DashboardPage.isLoaded" =>
       last.ret = (last.pre["welcomeMessage"].n = 1 /\ last.pre["welcomeMessage"].vis)

C7_Witness ==
  /\ last.op = "DashboardPage.isLoaded"
  /\ last.pre["welcomeMessage"] = [n |-> 1, vis |-> TRUE]
  /\ last.ret = TRUE

CartTargets == {"quantityInput", "sizeSelector", "colorOption", "addToCartBtn"}

\* C8: addToCartWithOptions fills the quantity, selects the size or clicks a colour
\* only when that option was passed and its control is on the page; an option that was
\* not passed, or whose control is missing, causes no interaction.
C8_OptionNeedsValueAndControl ==
  last.op = "ProductPage.addToCartWithOptions" =>
    LET options == last.args[1]
    IN  \A i \in 1..Len(last.events) :
          LET e == last.events[i]
          IN  /\ e[2] \in CartTargets
              /\ e[2] = "quantityInput" =>
                   ("quantity" \in DOMAIN options /\ last.pre["quantityInput"].n > 0)
              /\ e[2] = "sizeSelector" =>
                   ("size" \in DOMAIN options /\ last.pre["sizeSelector"].n > 0)
              /\ e[2] = "colorOption" =>
                   /\ "color" \in DOMAIN options
                   /\ last.pre["colorSelector"].n > 0
                   /\ last.pre["colorOption"].n > 0

C8_Witness ==
  /\ last.op = "ProductPage.addToCartWithOptions"
  /\ DOMAIN last.args[1] = {"quantity", "size", "color"}
  /\ last.pre["addToCartBtn"].n = 0
  /\ Len(last.events) = 3
  /\ last.events[3][2] = "colorOption"

\* the recorded call ended as the run r did, on a page r can leave behind
SameCall(l, r) ==
  /\ l.err = r.err
  /\ l.ret = r.ret
  /\ l.events = r.events
  /\ l.queries = r.queries
  /\ l.counted = r.counted
  /\ l.tried = r.tried
  /\ dom \in PageAfter(r)

\* C9: ProductPage.searchProduct(q) has exactly the effect of header.search(q) on the
\* page object's own header, and DashboardPage.navigateToTransactions, logout and
\* goHome those of header.search('transactions'), header.logout() and header.clickLogo().
C9_PureDelegation ==
  /\ last.op = "ProductPage.searchProduct" =>
       SameCall(last, HeaderComponent_search(obj.header, Run(last.pre), last.args[1]))
  /\ last.op = "DashboardPage.navigateToTransactions" =>
       SameCall(last, HeaderComponent_search(obj.header, Run(last.pre), "transactions"))
  /\ last.op = "DashboardPage.logout" =>
       \E reveal \in ElemStates :
         SameCall(last, HeaderComponent_logout(obj.header, Run(last.pre), reveal))
  /\ last.op = "DashboardPage.goHome" =>
       SameCall(last, HeaderComponent_clickLogo(obj.header, Run(last.pre)))

C9_Witness ==
  /\ last.op = "ProductPage.searchProduct"
  /\ last.events = << <<"fill", "searchInput", "test">>, <<"press", "keyboard", "Enter">> >>

Posted == JSON_parse(request.postData)

PostAnswered ==
  /\ request.url = "/api/posts"
  /\ request.method = "POST"
  /\ request.hasBody
  /\ response.status = 201

\* C10 as stated: the body answered by the mocked posts route is the posted payload
\* merged with a generated id: every posted field with its posted value, and an id
\* supplied by the mock.
C10_PayloadPlusGeneratedId ==
  PostAnswered =>
    /\ \A k \in ObjKeys(Posted) :
         ObjHas(response.data, k) /\ ObjGet(response.data, k) = ObjGet(Posted, k)
    /\ ObjKeys(response.data) = ObjKeys(Posted) \cup {"id"}
    /\ "id" \notin ObjKeys(Posted) => ObjGet(response.data, "id") = "999"

\* C10 amended: the mocked posts route answers a POST exactly when the payload has a
\* title and a body, with { id: 999, ...payload, userId: 1 }: every posted field but
\* userId with its posted value, userId always 1, and id 999 unless the payload
\* brings its own id.
C10_PayloadBetweenIdAndUserId ==
  /\ PostAnswered =>
       /\ ObjKeys(response.data) = ObjKeys(Posted) \cup {"id", "userId"}
       /\ \A k \in ObjKeys(Posted) \ {"userId"} :
            ObjGet(response.data, k) = ObjGet(Posted, k)
       /\ ObjGet(response.data, "userId") = "1"
       /\ "id" \notin ObjKeys(Posted) => ObjGet(response.data, "id") = "999"
  /\ (request.url = "/api/posts" /\ request.method = "POST") =>
       (response.status = 201 <=> {"title", "body"} \subseteq ObjKeys(Posted))

C10_Witness ==
  /\ PostAnswered
  /\ ObjHas(Posted, "userId") /\ ObjGet(Posted, "userId") = "2"
  /\ ObjHas(Posted, "id") /\ ObjGet(Posted, "id") = "7"
  /\ ObjGet(response.data, "userId") = "1"
  /\ ObjGet(response.data, "id") = "7"

\* the page has just had its request answered, under the routes still registered
FreshAnswer ==
  /\ net.status = "running"
  /\ net.answer.by = "page"
  /\ net.answer.at + 1 = net.pc

LiveRoutes(url) == {i \in 1..Len(net.routes) : urlMatches(url, net.routes[i].glob)}

\* C11: in every interception scenario of interceptor-examples.spec.js the URL the page
\* requests matches the glob of a route registered for it, so the page is answered by
\* the route and not by the network; the GET scenario shows 'Mocked User' and the POST
\* scenario shows 999.
C11_PageRequestMeetsItsRoute ==
  (net.scenario \in Scenarios /\ FreshAnswer /\ net.routes # <<>>) =>
    /\ LiveRoutes(net.answer.url) # {}
    /\ net.answer.via = "route"
    /\ net.scenario = "getUser" => net.result = "Mocked User"
    /\ net.scenario = "postPost" => net.result = "999"

\* C18: in the modify-and-continue scenario the handler registered second receives the
\* request with the header x-modified: true that the handler registered first added,
\* and fulfils it with headerModified true.
C18_SecondHandlerSeesAddedHeader ==
  (net.scenario = "modifyContinue" /\ FreshAnswer) =>
    /\ net.answer.via = "route"
    /\ net.answer.handler = "reportHeader"
    /\ ObjHas(net.answer.seen, "x-modified")
    /\ net.result = "true"

\* C19: a request sent through the API request context of a page to a URL that matches
\* a route registered on the page or on its context is handled by the route: the
\* handler runs and the caller gets the fabricated status and body.
C19_ApiRequestIsRouted ==
  (net.answer.by = "api" /\ LiveRoutes(net.answer.url) # {}) =>
    /\ net.answer.via = "route"
    /\ net.answer.ran # <<>>
    /\ net.answer.status = 200

\* C20: once unroute has removed the routes of a glob, no later request of the page is
\* answered by a removed registration; with no other route left for its URL the
\* request is answered by the network exactly as on a page that never had a route.
C20_RemovedRouteNeverAnswers ==
  net.answer.by = "page" =>
    /\ \A r \in net.removed : r[2] < net.answer.at => net.answer.route # r[1]
    /\ (FreshAnswer /\ net.removed # {} /\ LiveRoutes(net.answer.url) = {}) =>
         \E real \in NetworkReplies(PageGet(net.answer.url)) :
           net.answer = [Intercepted(<<>>, PageGet(net.answer.url), real)
                           EXCEPT !.at = net.answer.at]

C20_Witness ==
  /\ net.scenario = "unroute"
  /\ FreshAnswer
  /\ net.removed # {}
  /\ net.answer.via = "network"
  /\ net.answer.err # NoErr
  /\ net.result = "no-interceptor"

\* C12 as stated: within one scenario no two operations on the browsing context
\* (actions, waits, route handlers, event callbacks) are in flight at the same time.
C12_NoTwoOperationsInFlight ==
  \A w \in Workers : Cardinality(workers[w].inflight) <= 1

\* C12 amended: the script settles every operation of a statement before its next
\* statement starts; the operations of the script in flight belong to the statement it
\* is at, they are two only under Promise.all (waitForEvent with the click that causes
\* the event), and a route handler or event callback has an operation of its own in
\* flight next to them.
C12_StatementsDoNotOverlap ==
  \A w \in Workers :
    LET ex == workers[w]
    IN  /\ \A o \in ScriptOps(ex) : ex.started /\ o.stmt = ex.pc
        /\ Cardinality(ScriptOps(ex)) <= 2
        /\ Cardinality(ScriptOps(ex)) = 2 => Current(ex).kind = "all"
        /\ Cardinality(ex.inflight \ ScriptOps(ex)) <= 1

C12_Witness ==
  \E w \in Workers :
    /\ workers[w].test = "latency"
    /\ workers[w].pc = 3
    /\ \E o \in workers[w].inflight : o.by = "handler" /\ o.op = "route.fulfill"
    /\ \E o \in workers[w].inflight : o.by = "script" /\ o.op = "page.waitForTimeout"

\* C13: no two scenario executions running at the same time read or write the same
\* file.
C13_NoFileSharedByRunningScenarios ==
  \A p \in Paths : Cardinality(files[p]) <= 1

\* C14: every browsing context a scenario opens is closed by the time the scenario
\* ends, whether it passed or failed.
C14_NoContextOutlivesItsScenario ==
  \A w \in Workers :
    workers[w].status \in {"passed", "failed"} => workers[w].contexts = {}

\* the controls a strategy acts on, in the order it acts on them
AuthSteps(strategy) ==
  CASE strategy.class = "UsernamePasswordAuth" ->
         << <<"fill", "#username", strategy.username>>,
            <<"fill", "#password", strategy.password>>,
            <<"click", "#login", "">> >>
    [] strategy.class = "OAuthAuth" ->
         << <<"click", OAuthSelector(strategy.provider), "">> >>
    [] OTHER -> <<>>

\* C17: LoginTest.run(page) calls authenticate exactly once on the strategy chosen at
\* construction: UsernamePasswordAuth fills the username, then the password, then
\* clicks login; OAuthAuth only clicks the provider's OAuth button; the base
\* AuthStrategy raises 'Authentication strategy not implemented' without acting on the
\* page.  A control the page does not offer ends the run with an error at that step.
C17_RunAuthenticatesOnceWithItsStrategy ==
  auth.last.op = "LoginTest.run" =>
    LET strategy == auth.test.strategy
        steps == AuthSteps(strategy)
        done == auth.last.events
    IN  /\ auth.last.calls = <<strategy>>
        /\ Len(done) <= Len(steps)
        /\ done = SubSeq(steps, 1, Len(done))
        /\ strategy.class = "AuthStrategy" =>
             (auth.last.err = "Authentication strategy not implemented" /\ done = <<>>)
        /\ strategy.class # "AuthStrategy" =>
             /\ auth.last.err = NoErr <=> done = steps
             /\ (\A i \in 1..Len(steps) :
                   auth.last.pre[steps[i][2]] = [n |-> 1, vis |-> TRUE]) => done = steps

C17_Witness ==
  /\ auth.last.op = "LoginTest.run"
  /\ auth.test.strategy.class = "UsernamePasswordAuth"
  /\ auth.last.events = << <<"fill", "#username", "user">>,
                           <<"fill", "#password", "password">>,
                           <<"click", "#login", "">> >>
  /\ auth.last.err = NoErr

\* C15: in the request-timeout scenario the scenario passes exactly when the request
\* returned status 200 or failed with an error whose message contains 'timeout', and it
\* fails for every other outcome; a failed request is always caught and asserted on.
C15_PassesOn200OrTimeoutMessage ==
  api.pc = "done" =>
    /\ api.status \in {"passed", "failed"}
    /\ api.status = "passed" <=>
         \/ api.outcome.status = 200
         \/ /\ api.outcome.message # NoMessage
            /\ \E i \in 1..Len(api.outcome.message) :
                 /\ i + 6 <= Len(api.outcome.message)
                 /\ <<api.outcome.message[i], api.outcome.message[i + 1],
                      api.outcome.message[i + 2], api.outcome.message[i + 3],
                      api.outcome.message[i + 4], api.outcome.message[i + 5],
                      api.outcome.message[i + 6]>> = <<"t", "i", "m", "e", "o", "u", "t">>
    /\ api.outcome.message # NoMessage => api.caught = api.outcome.message

C15_Witness ==
  /\ api.pc = "done"
  /\ api.latency > RequestTimeout
  /\ api.outcome.message = Text_RequestTimedOut \o String(RequestTimeout) \o Text_ms
  /\ api.caught = api.outcome.message
  /\ api.status = "failed"

\* C16: every axe-core scenario fails whenever a scan of it reports at least one
\* violation, and passes only when every scan of the test ran and returned an empty
\* violation list; no scenario logs violations and still passes.
C16_ViolationFailsTheScenario ==
  /\ axe.status = "passed" =>
       /\ Len(axe.results) = AxeTests[axe.test].scans
       /\ \A i \in 1..Len(axe.results) : axe.results[i] = <<>>
       /\ \A i \in 1..Len(axe.log) : ~(axe.log[i][2] = "violations" /\ axe.log[i][3] > 0)
  /\ (axe.pc = "done" /\ \E i \in 1..Len(axe.results) : axe.results[i] # <<>>) =>
       axe.status = "failed"
  /\ \A i \in 1..(Len(axe.results) - 1) : axe.results[i] = <<>>
  /\ axe.pc = "done" => axe.status \in {"passed", "failed"}

\* the compliance check meets only a moderate violation: nothing is thrown or logged,
\* the expect fails the test
C16_Witness ==
  /\ axe.test = "completeCompliance"
  /\ axe.pc = "done"
  /\ axe.results = << <<"moderate">> >>
  /\ axe.log = <<>>
  /\ axe.status = "failed"

LogoutOps == {"HeaderComponent.logout", "DashboardPage.logout"}

MenuClick == <<"click", "userMenu">>

LogoutClick == <<"click", "logoutBtn">>

\* the user-menu step of the call has finished: the menu was not there, or its click landed
MenuStepDone(l) == l.pre["userMenu"].n = 0 \/ <<"click", "userMenu", "">> \in Range(l.events)

\* what the logout button matches at the second presence check
AtSecondCheck(l) ==
  IF <<"click", "userMenu", "">> \in Range(l.events) THEN l.args[1] ELSE l.pre["logoutBtn"]

\* C26: in HeaderComponent.logout the logout button is clicked only after the user-menu
\* step has finished: a present user menu is clicked first, and the click on the logout
\* button is issued exactly when the second presence check finds the button, whether or
\* not a user menu was found; it lands when the button is one visible element.
C26_LogoutClickAfterMenuStep ==
  last.op \in LogoutOps =>
    /\ last.tried \in {<<>>, <<MenuClick>>, <<LogoutClick>>, <<MenuClick, LogoutClick>>}
    /\ MenuClick \in Range(last.tried) <=> last.pre["userMenu"].n > 0
    /\ LogoutClick \in Range(last.tried) <=>
         (MenuStepDone(last) /\ AtSecondCheck(last).n > 0)
    /\ <<"click", "logoutBtn", "">> \in Range(last.events) <=>
         (MenuStepDone(last) /\ AtSecondCheck(last) = [n |-> 1, vis |-> TRUE])

\* no user menu on the page, the logout button is there and is clicked
C26_Witness ==
  /\ last.op = "HeaderComponent.logout"
  /\ last.pre["userMenu"].n = 0
  /\ last.pre["logoutBtn"] = [n |-> 1, vis |-> TRUE]
  /\ last.events = << <<"click", "logoutBtn", "">> >>
  /\ last.err = NoErr

\* position of a control in the order addToCartWithOptions works through them
CartRank(sel) == CASE sel = "quantityInput" -> 1
                   [] sel = "sizeSelector" -> 2
                   [] sel = "colorOption" -> 3
                   [] sel = "addToCartBtn" -> 4
                   [] OTHER -> 0

AddClick == <<"click", "addToCartBtn">>

C28_EveryQuantityIsFilled ==
  ( /\ last.op = "ProductPage.addToCartWithOptions"
    /\ "quantity" \in DOMAIN last.args[1]
    /\ last.pre["quantityInput"] = [n |-> 1, vis |-> TRUE] )
  => ( /\ last.events # <<>>
       /\ last.events[1] = <<"fill", "quantityInput", ToString(last.args[1].quantity)>> )

\* the locator each text getter reads
TextGetterTarget(op) ==
  CASE op = "FooterComponent.getCopyrightText" -> "copyrightText"
    [] op = "ProductPage.getProductTitle" -> "productTitle"
    [] op = "ProductPage.getProductPrice" -> "productPrice"
    [] op = "ProductPage.getProductDescription" -> "productDescription"
    [] op = "LoginPage.getErrorMessage" -> "errorMessage"
    [] op = "DashboardPage.getWelcomeMessage" -> "welcomeMessage"

TextGetterOps ==
  {"FooterComponent.getCopyrightText", "ProductPage.getProductTitle",
   "ProductPage.getProductPrice", "ProductPage.getProductDescription",
   "LoginPage.getErrorMessage", "DashboardPage.getWelcomeMessage"}

\* C29: each text getter returns null exactly when its locator matches no element and
\* the element's text otherwise, and raises no error for any number of matching elements.
C29_TextGetterNeverRaises ==
  last.op \in TextGetterOps =>
    LET sel == TextGetterTarget(last.op)
    IN  /\ last.err = NoErr
        /\ last.ret = NullValue <=> last.pre[sel].n = 0
        /\ last.pre[sel].n > 0 => last.ret = Label(sel)

\* the purchase steps of the run completed
Purchased(c) == c.world.loads /\ c.world.button = [n |-> 1, vis |-> TRUE]

Sends(c) == {i \in 1..Len(c.last.trace) : c.last.trace[i][1] = "send"}

\* C30: CheckoutTest.run sends exactly one notification through the injected service,
\* with the message 'Purchase completed successfully!', and only after the navigation to
\* checkout and the confirm-purchase click have both completed; if either step fails no
\* notification is sent, and with the base NotificationService the send ends the run in
\* the error 'Notification service not implemented'.
C30_OneNotificationAfterPurchase ==
  checkout.last.op = "CheckoutTest.run" =>
    LET trace == checkout.last.trace
        service == checkout.test.notificationService
    IN  /\ Cardinality(Sends(checkout)) = IF Purchased(checkout) THEN 1 ELSE 0
        /\ \A i \in Sends(checkout) :
             /\ trace[i] = <<"send", service.class, PurchaseMessage>>
             /\ i = 3
             /\ trace[1] = <<"goto", "/checkout">>
             /\ trace[2] = <<"click", "#confirm-purchase">>
        /\ ~Purchased(checkout) =>
             /\ checkout.last.err \notin {NoErr, "Notification service not implemented"}
             /\ \A i \in 1..Len(trace) : trace[i][1] \in {"goto", "click"}
        /\ (Purchased(checkout) /\ service.class = "NotificationService") =>
             /\ checkout.last.err = "Notification service not implemented"
             /\ Len(trace) = 3
        /\ (Purchased(checkout) /\ service.class = "ConsoleNotificationService") =>
             /\ checkout.last.err = NoErr
             /\ trace[4] = <<"log", "NOTIFICATION: ", PurchaseMessage>>
        /\ (Purchased(checkout) /\ service.class = "ApiNotificationService") =>
             /\ trace[4] = <<"post", "/api/notify", PurchaseMessage>>
             /\ checkout.last.err = NoErr <=> checkout.world.notify

\* the base service is injected and the purchase goes through
C30_Witness ==
  /\ checkout.last.op = "CheckoutTest.run"
  /\ checkout.test.notificationService.class = "NotificationService"
  /\ checkout.last.trace = << <<"goto", "/checkout">>, <<"click", "#confirm-purchase">>,
                              <<"send", "NotificationService", PurchaseMessage>> >>
  /\ checkout.last.err = "Notification service not implemented"

\* the pair each login route expects, and the messages it answers with
LoginExpects(h) ==
  IF h = "login"
  THEN [username |-> "admin", password |-> "admin123",
        success |-> "Login successful", failure |-> "Invalid credentials"]
  ELSE [username |-> "abhinav", password |-> "123",
        success |-> "Login successful! Welcome Abhinav.",
        failure |-> "Invalid username or password"]

\* the request body carries exactly the expected credentials
BodyHasPair(req, e) ==
  /\ req.hasBody
  /\ "json" \in DOMAIN req.postData
  /\ \E i \in 1..Len(req.postData.json) : req.postData.json[i] = <<"username", e.username>>
  /\ \E i \in 1..Len(req.postData.json) : req.postData.json[i] = <<"password", e.password>>

\* C21: for every request body sent to a mocked login route the response is status 200
\* with the success message exactly when both the username and the password equal the
\* expected pair, and status 401 with the invalid-credentials message in every other
\* case, including a request with no body.
C21_LoginAnswersEveryBody ==
  mock.route # "none" =>
    LET e == LoginExpects(mock.route)
    IN  /\ mock.out.act = "fulfill"
        /\ IF BodyHasPair(mock.req, e)
           THEN /\ mock.out.status = 200
                /\ ObjGet(JSON_parse(mock.out.body), "message") = e.success
           ELSE /\ mock.out.status = 401
                /\ ObjGet(JSON_parse(mock.out.body), "message") = e.failure

InterceptionTests == {"interceptGet", "mockLogin", "notifyApi"}

\* the calls that load the content issuing the request, or perform the action that
\* triggers it
Triggers ==
  {"page.setContent", "page.goto", "page.click#loginBtn",
   "page.click#confirm-purchase", "request.post"}

\* C22: in the interception scenarios, whenever a call that loads the requesting
\* content or triggers the request is issued, page.route has already been
\* answered, and every request sent that matches the scenario's glob found the
\* route registered
C22_RouteRegisteredBeforeTrigger ==
  ev.test \in InterceptionTests =>
    /\ \A i \in 1..Len(ev.log) :
         ev.log[i].op \in Triggers => "page.route" \in ev.log[i].settled
    /\ \A i \in 1..Len(ev.sent) :
         urlMatches(ev.sent[i].url, RouteGlob(ev.test)) => ev.sent[i].exists

C22_Witness ==
  /\ ev.test = "mockLogin"
  /\ \E i \in 1..Len(ev.sent) :
       urlMatches(ev.sent[i].url, RouteGlob(ev.test)) /\ ev.sent[i].exists
  /\ \E i \in 1..Len(ev.log) : ev.log[i].op = "page.click#loginBtn"

\* C23: when the context-events scenario checks its flags, page, request, console
\* and weberror have all been set
C23_AllFlagsSetWhenChecked ==
  (ev.test = "contextEvents" /\ ev.checked) =>
    {"page", "request", "console", "weberror"} \subseteq ev.seen

PopupTests == {"newTab", "newTabPages"}

\* C24: the click of the dialog scenario is issued with the dialog listener armed
\* and the click of the new-tab scenarios with the popup listener armed, neither
\* event arrives without a listener, and a new-tab scenario is past its
\* Promise.all only when both the click and the waitForEvent have been answered
C24_ListenerArmedBeforeClick ==
  /\ \A i \in 1..Len(ev.log) :
       /\ ev.log[i].op = "page.click#jsAlert" => "dialog" \in ev.log[i].armed
       /\ ev.log[i].op = "page.click#new" => "popup" \in ev.log[i].armed
  /\ ev.missed \cap {"dialog", "popup"} = {}
  /\ (ev.test \in PopupTests /\ ev.pc > 2) =>
       {"page.waitForEvent", "page.click#new"} \subseteq ev.settled

C24_Witness ==
  /\ ev.test = "newTab" /\ ev.pc = 3 /\ ev.status = "running"
  /\ \E i \in 1..Len(ev.log) : ev.log[i].op = "page.click#new"

\* the body of the answer is JSON whose data field is defined
HasData(body) ==
  result_data(body).err = NoErr /\ result_data(body).data # Undefined

\* C25: when the endpoint answers the GET with status 200, the scenario passes
\* only if the body has a defined data field
C25_PassOn200OnlyWithData ==
  (gql.status = "passed" /\ gql.world.reachable /\ gql.world.status = 200) =>
    HasData(gql.world.body)
====
